---- MODULE Spec2Model ----
(***************************************************************************)
(* Statistical validation and cycle characterisation of the insurance      *)
(* market simulation outputs (samthorold/abm, Python analysis scripts).    *)
(*                                                                         *)
(* Numbers: loss ratios and market shares are integers in hundredths       *)
(* (200 stands for 2.0), capital, price and exposure are integers, the     *)
(* leverage ratio is an integer in tenths (20 stands for 2.0).  Quotients  *)
(* are kept exact as records [num, den]; a float division by zero is the   *)
(* quotient with den = 0 (numpy's inf or nan) or a raised                  *)
(* ZeroDivisionError (Python floats).                                      *)
(***************************************************************************)
EXTENDS Integers, Sequences, FiniteSets, TLC

VARIABLES
    pc,                       \* control point of the program being run
    \* anomaly_detection.py
    market_ts,                \* market time series of the current run
    insurer_snapshots,        \* insurer snapshots of the current run
    run_out,                  \* results of the checks on the current run
    entries,                  \* the run_* directories of the experiment directory
    run_dirs,                 \* sorted(exp_path.glob("run_*")), the runs still to process
    processed,                \* the runs the loop has gone through, with their files
    all_shadow_issues,
    all_capacity_violations,
    all_insolvency_stats,
    all_loss_explosions,
    all_stationarity_results,
    total_issues,
    stationarity_summary,     \* the counts printed under STATIONARITY
    \* lloyds_insurance/analysis/experiment_1.py
    rep,                      \* the replication the loop is at
    convergence_results,
    summary,                  \* what the summary section prints
    \* cycle_analysis.py
    input_series,             \* the sequence handed to the cycle routines
    min_distance,
    cycles_out,               \* the peaks found and detect_cycles_peaks' result
    ar2_a1,                   \* check_cycle_conditions' arguments
    ar2_a2,
    conditions_out,           \* check_cycle_conditions' result
    spectral_series,          \* the series whose spectrum is taken
    diag_out,                 \* cycle_analysis.plot_cycle_diagnostics' periodogram
    plot_out,                 \* plot_spectral.plot_single_periodogram's periodogram
    exp2_out,                 \* experiment_2.analyze_cycles' spectrum
    multi_out,                \* one run's peak in the multi-run spectral plots
    \* lloyds_insurance/analysis/experiment_5.py
    exp5_files,               \* the time series files on disk, by scenario and replication
    scenario,                 \* position in the scenario list [1, 2, 3, 4]
    rep5,                     \* the replication the inner loop is at
    df5,                      \* the frame loaded last
    steady_state,             \* the steady-state window taken last
    all_loss_ratios,
    results_by_scenario,
    \* market_structure.py
    gini_shares,              \* calculate_gini's argument
    gini_out,                 \* calculate_gini's result
    market_snapshots,         \* market_share_evolution's insurer_snapshots
    share_evolution,          \* market_share_evolution's frame, None before
    hhi_data,                 \* calculate_hhi_timeseries's frame, None before
    \* parameter_sensitivity.py
    sweep_df,                 \* the frame load_sweep_results returned
    param_name,               \* df['param_name'].iloc[0]
    pearsonr_calls,           \* the arguments handed to stats.pearsonr
    correlations,             \* compute_correlations's dict, None before
    printed,                  \* the lines printed about the correlations
    \* analyze_exp3.py, analyze_exp4.py
    group_a,                  \* final insolvencies of the baseline replications
    group_b,                  \* final insolvencies of the other replications
    comparison                \* (p_value, improvement), None before

RunVars == << market_ts, insurer_snapshots, run_out >>

BatchVars == << entries, run_dirs, processed, all_shadow_issues,
                all_capacity_violations, all_insolvency_stats,
                all_loss_explosions, all_stationarity_results, total_issues,
                stationarity_summary >>

Exp1Vars == << rep, convergence_results, summary >>

CycleVars == << input_series, min_distance, cycles_out >>

CondVars == << ar2_a1, ar2_a2, conditions_out >>

\* the variables of the analysis routines that are run on their own
SpectralVars == << spectral_series, diag_out, plot_out, exp2_out, multi_out >>

Exp5Vars == << exp5_files, scenario, rep5, df5, steady_state, all_loss_ratios,
              results_by_scenario >>

GiniVars == << gini_shares, gini_out >>

MarketVars == << market_snapshots, share_evolution, hhi_data >>

CorrVars == << sweep_df, param_name, pearsonr_calls, correlations, printed >>

CompareVars == << group_a, group_b, comparison >>

StatVars == << CondVars, SpectralVars, Exp5Vars, GiniVars, MarketVars, CorrVars,
               CompareVars >>

vars == << pc, RunVars, BatchVars, Exp1Vars, CycleVars, StatVars >>

\* Python's None and a present value, kept comparable
None == << >>
Some(v) == << v >>

\* the variables of a program that is not the one being run
RunIdle ==
    /\ market_ts = << >>
    /\ insurer_snapshots = << >>
    /\ run_out = None

BatchIdle ==
    /\ entries = {}
    /\ run_dirs = << >>
    /\ processed = << >>
    /\ all_shadow_issues = << >>
    /\ all_capacity_violations = << >>
    /\ all_insolvency_stats = << >>
    /\ all_loss_explosions = << >>
    /\ all_stationarity_results = << >>
    /\ total_issues = None
    /\ stationarity_summary = None

Exp1Idle ==
    /\ rep = 0
    /\ convergence_results = << >>
    /\ summary = None

CycleIdle ==
    /\ input_series = << >>
    /\ min_distance = 0
    /\ cycles_out = None

CondIdle ==
    /\ ar2_a1 = None
    /\ ar2_a2 = None
    /\ conditions_out = None

SpectralIdle ==
    /\ spectral_series = << >>
    /\ diag_out = None
    /\ plot_out = None
    /\ exp2_out = None
    /\ multi_out = None

Exp5Idle ==
    /\ exp5_files = << >>
    /\ scenario = 0
    /\ rep5 = 0
    /\ df5 = << >>
    /\ steady_state = << >>
    /\ all_loss_ratios = << >>
    /\ results_by_scenario = << >>

GiniIdle ==
    /\ gini_shares = << >>
    /\ gini_out = None

MarketIdle ==
    /\ market_snapshots = << >>
    /\ share_evolution = None
    /\ hhi_data = None

CorrIdle ==
    /\ sweep_df = << >>
    /\ param_name = ""
    /\ pearsonr_calls = << >>
    /\ correlations = None
    /\ printed = << >>

CompareIdle ==
    /\ group_a = << >>
    /\ group_b = << >>
    /\ comparison = None

StatIdle ==
    /\ CondIdle /\ SpectralIdle /\ Exp5Idle /\ GiniIdle /\ MarketIdle /\ CorrIdle
    /\ CompareIdle

\* what a routine that is run on its own leaves idle and unchanged: g names
\* the routine's own group of variables
OthersIdle(g) ==
    /\ RunIdle
    /\ BatchIdle
    /\ Exp1Idle
    /\ CycleIdle
    /\ (g # "cond" => CondIdle)
    /\ (g # "spectral" => SpectralIdle)
    /\ (g # "exp5" => Exp5Idle)
    /\ (g # "gini" => GiniIdle)
    /\ (g # "market" => MarketIdle)
    /\ (g # "corr" => CorrIdle)
    /\ (g # "compare" => CompareIdle)

OthersUnchanged(g) ==
    /\ UNCHANGED << RunVars, BatchVars, Exp1Vars, CycleVars >>
    /\ (g # "cond" => UNCHANGED CondVars)
    /\ (g # "spectral" => UNCHANGED SpectralVars)
    /\ (g # "exp5" => UNCHANGED Exp5Vars)
    /\ (g # "gini" => UNCHANGED GiniVars)
    /\ (g # "market" => UNCHANGED MarketVars)
    /\ (g # "corr" => UNCHANGED CorrVars)
    /\ (g # "compare" => UNCHANGED CompareVars)

(***************************************************************************)
(* Bounds of the model.                                                    *)
(***************************************************************************)
MaxYears == 2
MaxRuns == 2

(***************************************************************************)
(* Program constants.                                                      *)
(***************************************************************************)
ExtremeLossRatio == 200
ExplosionThreshold == 200
InsolvencyThresholdPct == 20
DefaultLeverage == 20
MinObs == 10
Ar2MinObs == 10
Alpha == 5

(***************************************************************************)
(* Generic helpers.                                                        *)
(***************************************************************************)
Abs(x) == IF x < 0 THEN -x ELSE x

MaxOf(S) == CHOOSE x \in S : \A y \in S : y <= x

RECURSIVE SumSeq(_)
SumSeq(s) == IF s = << >> THEN 0 ELSE Head(s) + SumSeq(Tail(s))

Range(s) == { s[k] : k \in DOMAIN s }

SeqsUpTo(S, n) == UNION { [1..k -> S] : k \in 0..n }

(***************************************************************************)
(* Input domains.                                                          *)
(***************************************************************************)
LossRatios == {200, 250}
Capitals == {-500, 0, 1000}
Customers == {2, 3}
Prices == {1010}
Shares == {0, 50}
InsurerIds == {1, 2}
SnapshotYears == {0, 1}
Leverages == {DefaultLeverage}
PValues == {1, 5, 50}
RowDtypes == {"object", "float64"}

\* a market series is what load_timeseries returns: one row per simulated
\* year, years 0, 1, 2, ... in file order
MkMarket(lrs) == [t \in DOMAIN lrs |-> [year |-> t - 1, loss_ratio |-> lrs[t]]]

MarketSeries(n) == { MkMarket(lrs) : lrs \in SeqsUpTo(LossRatios, n) }

SnapshotFields(years) ==
    [year : years, capital : Capitals, is_solvent : BOOLEAN,
     loss_ratio : LossRatios, num_customers : Customers, price : Prices,
     market_share : Shares]

\* a snapshot file: the k-th row is insurer k's row for some year, for the
\* first n insurers of InsurerIds
MkSnapshots(fs) ==
    [k \in DOMAIN fs |->
        [year |-> fs[k].year, insurer_id |-> k, capital |-> fs[k].capital,
         is_solvent |-> fs[k].is_solvent, loss_ratio |-> fs[k].loss_ratio,
         num_customers |-> fs[k].num_customers, price |-> fs[k].price,
         market_share |-> fs[k].market_share]]

SnapshotFiles(years, n) == { MkSnapshots(fs) : fs \in SeqsUpTo(SnapshotFields(years), n) }

Column(df, c) == [k \in DOMAIN df |-> df[k][c]]

(***************************************************************************)
(* anomaly_detection.check_shadow_state_consistency                        *)
(***************************************************************************)
FinalYear(m) == MaxOf({ m[t].year : t \in DOMAIN m })

FinalInsurersMutant(m, s) == s

\* insurer_snapshots[insurer_snapshots['year'] == final_year]
FinalInsurers(m, s) ==
    LET fy == FinalYear(m)
        AtFinal(r) == r.year = fy
    IN  SelectSeq(s, AtFinal)

NegativeCapital(final_insurers) ==
    LET Neg(r) == r.capital < 0 IN SelectSeq(final_insurers, Neg)

ExtremeLossRatiosMutant(final_insurers) ==
    LET Ext(r) == r.loss_ratio >= ExtremeLossRatio IN SelectSeq(final_insurers, Ext)

ExtremeLossRatios(final_insurers) ==
    LET Ext(r) == r.loss_ratio > ExtremeLossRatio IN SelectSeq(final_insurers, Ext)

ShadowIssuesMutant(final_insurers) ==
    LET negative_capital == NegativeCapital(final_insurers)
        extreme_loss_ratios == ExtremeLossRatios(final_insurers)
        market_share_error ==
          Abs(SumSeq([k \in DOMAIN final_insurers |-> final_insurers[k].market_share]) - 100)
    IN  (IF negative_capital # << >>
           THEN << [type |-> "negative_capital"] >> ELSE << >>)
        \o
        (IF extreme_loss_ratios # << >>
           THEN << [type |-> "extreme_loss_ratios"] >> ELSE << >>)
        \o
        (IF market_share_error > 3
           THEN << [type |-> "market_share"] >> ELSE << >>)

ShadowIssues(final_insurers) ==
    LET negative_capital == NegativeCapital(final_insurers)
        extreme_loss_ratios == ExtremeLossRatios(final_insurers)
    IN  (IF negative_capital # << >>
           THEN << [type |-> "negative_capital",
                    count |-> Len(negative_capital),
                    insurer_ids |-> Column(negative_capital, "insurer_id")] >>
           ELSE << >>)
        \o
        (IF extreme_loss_ratios # << >>
           THEN << [type |-> "extreme_loss_ratios",
                    count |-> Len(extreme_loss_ratios),
                    max_loss_ratio |-> MaxOf(Range(Column(extreme_loss_ratios, "loss_ratio"))),
                    insurer_ids |-> Column(extreme_loss_ratios, "insurer_id")] >>
           ELSE << >>)

check_shadow_state_consistency(m, s) ==
    IF m = << >>
      THEN [is_consistent |-> FALSE,
            result |-> [error |-> "Empty market time series"]]
    ELSE LET final_insurers == FinalInsurers(m, s) IN
      IF final_insurers = << >>
        THEN [is_consistent |-> FALSE,
              result |-> [error |-> "No insurer snapshots for final year"]]
      ELSE LET issues == ShadowIssues(final_insurers)
               total_market_share == SumSeq(Column(final_insurers, "market_share"))
           IN  [is_consistent |-> Len(issues) = 0,
                result |->
                  [issues |-> issues,
                   checks |->
                     [negative_capital_count |-> Len(NegativeCapital(final_insurers)),
                      extreme_loss_ratio_count |-> Len(ExtremeLossRatios(final_insurers)),
                      total_market_share |-> total_market_share,
                      market_share_error |-> Abs(total_market_share - 100)]]]

(***************************************************************************)
(* anomaly_detection.check_capacity_violations                             *)
(* dtype is the dtype of the rows iterrows yields: "object" (Python        *)
(* numbers, a division by zero raises) when the frame mixes bool and       *)
(* numeric columns, "float64" (numpy, a division by zero gives inf) when   *)
(* every column is numeric.                                                *)
(***************************************************************************)
ExceedsCapacity(row, leverage_ratio) ==
    /\ row.is_solvent
    /\ row.num_customers * row.price * 1000 > row.capital * leverage_ratio * 101

ViolationPct(row, leverage_ratio) ==
    LET capacity10 == row.capital * leverage_ratio
        exposure10 == row.num_customers * row.price * 10
    IN  IF capacity10 = 0 THEN [num |-> 1, den |-> 0]   \* inf
        ELSE [num |-> (exposure10 - capacity10) * 100, den |-> capacity10]

Violation(row, leverage_ratio) ==
    [year |-> row.year,
     insurer_id |-> row.insurer_id,
     capacity |-> [num |-> row.capital * leverage_ratio, den |-> 10],
     exposure |-> row.num_customers * row.price,
     violation_pct |-> ViolationPct(row, leverage_ratio)]

CapacityRaises(s, leverage_ratio, dtype) ==
    /\ dtype = "object"
    /\ \E k \in DOMAIN s :
          ExceedsCapacity(s[k], leverage_ratio) /\ s[k].capital * leverage_ratio = 0

check_capacity_violations(s, leverage_ratio) ==
    LET Exceeds(row) == ExceedsCapacity(row, leverage_ratio)
        rows == SelectSeq(s, Exceeds)
        violations == [k \in DOMAIN rows |-> Violation(rows[k], leverage_ratio)]
    IN  [has_violations |-> Len(violations) > 0, violations |-> violations]

(***************************************************************************)
(* anomaly_detection.check_insolvency_rates                                *)
(***************************************************************************)
RECURSIVE Unique(_)
Unique(s) ==
    IF s = << >> THEN << >>
    ELSE LET init == Unique(SubSeq(s, 1, Len(s) - 1))
             last == s[Len(s)]
         IN  IF last \in Range(init) THEN init ELSE Append(init, last)

ExceedsThresholdMutant(insolvent_count, total_insurer_years) ==
    total_insurer_years > 0
      /\ insolvent_count * 100 >= InsolvencyThresholdPct * total_insurer_years

ExceedsThreshold(insolvent_count, total_insurer_years) ==
    total_insurer_years > 0
      /\ insolvent_count * 100 > InsolvencyThresholdPct * total_insurer_years

check_insolvency_rates(s) ==
    LET Insolvent(row) == ~row.is_solvent
        insolvent == SelectSeq(s, Insolvent)
        total_insurer_years == Len(s)
        insolvent_count == Len(insolvent)
        failed_insurers == Unique(Column(insolvent, "insurer_id"))
    IN  [exceeds_threshold |-> ExceedsThreshold(insolvent_count, total_insurer_years),
         stats |->
           [total_insurer_years |-> total_insurer_years,
            insolvent_count |-> insolvent_count,
            insolvency_rate |->
              IF total_insurer_years > 0
                THEN [num |-> insolvent_count, den |-> total_insurer_years]
                ELSE [num |-> 0, den |-> 1],
            failed_insurers |-> failed_insurers,
            num_failed_insurers |-> Len(failed_insurers)]]

(***************************************************************************)
(* anomaly_detection.check_loss_ratio_explosions                           *)
(***************************************************************************)
ExplodesMutant(row) == row.loss_ratio >= ExplosionThreshold

\* market_ts['loss_ratio'] > threshold
Explodes(row) == row.loss_ratio > ExplosionThreshold

check_loss_ratio_explosions(m) ==
    LET explosions == SelectSeq(m, Explodes)
        explosion_years ==
          [k \in DOMAIN explosions |->
             [year |-> explosions[k].year, loss_ratio |-> explosions[k].loss_ratio]]
    IN  [has_explosions |-> Len(explosion_years) > 0, explosions |-> explosion_years]

(***************************************************************************)
(* anomaly_detection.check_stationarity                                    *)
(* p is the p-value (in hundredths) statsmodels' adfuller returns for the  *)
(* series; the library is outside the repository.                          *)
(***************************************************************************)
InsufficientObsMutant(series) == Len(series) <= MinObs

InsufficientObs(series) == Len(series) < MinObs

check_stationarity(series, p) ==
    IF InsufficientObs(series)
      THEN [is_stationary |-> None,
            test_results |-> [error |-> "Insufficient data for stationarity test"]]
      ELSE [is_stationary |-> Some(p < Alpha),
            test_results |-> [p_value |-> p, is_stationary |-> p < Alpha]]

\* stat_result.get('p_value')
GetPValue(test_results) ==
    IF "p_value" \in DOMAIN test_results THEN Some(test_results.p_value) ELSE None

(***************************************************************************)
(* cycle_analysis.fit_ar2_yule_walker                                      *)
(* With d[t] ~ n*x[t] - sum(x) and c(k) = sum of d[t]*d[t+k], statsmodels' *)
(* acf gives rho_k = c(k)/c(0), so that                                    *)
(*   1 - rho1^2 = (c0-c1)(c0+c1)/c0^2,  a1 = c1(c0-c2)/((c0-c1)(c0+c1)),   *)
(*   a2 = (c2*c0 - c1^2)/((c0-c1)(c0+c1)).                                 *)
(* The products are kept as pairs of factors.  c0 and c1 are integers      *)
(* below 10^5 here, so |1 - rho1^2| < 1e-10 exactly when it is 0; a        *)
(* constant series has c0 = 0 and acf returns nan for every lag.           *)
(***************************************************************************)
RECURSIVE Gcd(_, _)
Gcd(a, b) == IF b = 0 THEN a ELSE Gcd(b, a % b)

RECURSIVE GcdSeq(_)
GcdSeq(s) == IF s = << >> THEN 0 ELSE Gcd(Abs(Head(s)), GcdSeq(Tail(s)))

\* the deviations from the mean up to a common positive factor, which the
\* ratios c(k)/c(0) do not depend on
Deviations(series) ==
    LET n == Len(series)
        total == SumSeq(series)
        d == [t \in 1..n |-> n * series[t] - total]
        g == GcdSeq(d)
    IN  IF g = 0 THEN d ELSE [t \in 1..n |-> d[t] \div g]

AutoCov(d, k) == SumSeq([t \in 1..(Len(d) - k) |-> d[t] * d[t + k]])

TooShort(series) == Len(series) < Ar2MinObs

fit_ar2_yule_walker(series) ==
    IF TooShort(series) THEN [kind |-> "None"]
    ELSE LET d == Deviations(series)
             c0 == AutoCov(d, 0)
             c1 == AutoCov(d, 1)
             c2 == AutoCov(d, 2)
         IN  IF c0 = 0 THEN [kind |-> "nan"]
             ELSE IF c0 = c1 \/ c0 = -c1 THEN [kind |-> "None"]
             ELSE [kind |-> "fit",
                   a1 |-> [num |-> << c1, c0 - c2 >>, den |-> << c0 - c1, c0 + c1 >>],
                   a2 |-> [num |-> << c2 * c0 - c1 * c1, 1 >>,
                           den |-> << c0 - c1, c0 + c1 >>],
                   mean |-> [num |-> SumSeq(series), den |-> Len(series)]]

(***************************************************************************)
(* anomaly_detection.analyze_experiment_anomalies, the five checks of one  *)
(* loop iteration (lines 266-316) on a run whose three files are present.  *)
(***************************************************************************)
RunChecks(m, s, leverage_ratio, dtype, p) ==
    LET shadow == check_shadow_state_consistency(m, s) IN
    IF CapacityRaises(s, leverage_ratio, dtype)
      THEN [raised |-> TRUE, shadow |-> shadow]
      ELSE [raised |-> FALSE,
            shadow |-> shadow,
            capacity |-> check_capacity_violations(s, leverage_ratio),
            insolvency |-> check_insolvency_rates(s),
            explosions |-> check_loss_ratio_explosions(m),
            stationarity |-> check_stationarity(Column(m, "loss_ratio"), p)]

(***************************************************************************)
(* One run: the loaded files of a run directory, then the five checks.     *)
(***************************************************************************)
InitRun ==
    /\ StatIdle
    /\ pc = "loaded"
    /\ market_ts \in MarketSeries(MaxYears)
    /\ insurer_snapshots \in SnapshotFiles(SnapshotYears, Cardinality(InsurerIds))
    /\ run_out = None
    /\ BatchIdle
    /\ Exp1Idle
    /\ CycleIdle

AnalyzeRun ==
    /\ UNCHANGED StatVars
    /\ pc = "loaded"
    /\ \E leverage_ratio \in Leverages, dtype \in RowDtypes, p \in PValues :
         LET r == RunChecks(market_ts, insurer_snapshots, leverage_ratio, dtype, p)
         IN  /\ run_out' = r
             /\ pc' = IF r.raised THEN "raised" ELSE "analysed"
    /\ UNCHANGED << market_ts, insurer_snapshots >>
    /\ UNCHANGED << BatchVars, Exp1Vars, CycleVars >>

NextRun == AnalyzeRun

SpecRun == InitRun /\ [][NextRun]_vars

(***************************************************************************)
(* anomaly_detection.analyze_experiment_anomalies: the batch over the run  *)
(* directories of one experiment.  A run directory run_<n> is named by its *)
(* replication index n; Path comparison is string comparison of the names. *)
(***************************************************************************)
RunIndices == {1, 2, 10}

RECURSIVE Digits(_)
Digits(n) == IF n < 10 THEN << n >> ELSE Append(Digits(n \div 10), n % 10)

\* str.__lt__ on the decimal names: lexicographic, a proper prefix first
RECURSIVE StrLess(_, _)
StrLess(a, b) ==
    IF a = << >> THEN b # << >>
    ELSE IF b = << >> THEN FALSE
    ELSE IF Head(a) # Head(b) THEN Head(a) < Head(b)
    ELSE StrLess(Tail(a), Tail(b))

PathLess(a, b) == StrLess(Digits(a), Digits(b))

\* sorted(exp_path.glob("run_*")): the names are distinct, so the result
\* does not depend on the order glob yields them in
RECURSIVE Sorted(_)
Sorted(S) ==
    IF S = {} THEN << >>
    ELSE LET least == CHOOSE a \in S : \A b \in S \ {a} : PathLess(a, b)
         IN  << least >> \o Sorted(S \ {least})

\* the files of a run directory, as the loaders find them
BatchLossRatioSeqs ==
    { [t \in 1..n |-> lr] : n \in {1, MinObs - 1, MinObs}, lr \in {200} }
      \cup { << >>, << 250 >>,
             [t \in 1..MinObs |-> IF t % 2 = 1 THEN 200 ELSE 250] }

BatchMarkets == { MkMarket(lrs) : lrs \in BatchLossRatioSeqs }

BatchInsurers ==
    { << 1000, TRUE, 200, 2 >>,      \* healthy
      << -500, TRUE, 200, 2 >>,      \* solvent, negative capital
      << -500, FALSE, 200, 2 >>,     \* insolvent, negative capital
      << 1000, TRUE, 250, 2 >>,      \* extreme loss ratio
      << 1000, TRUE, 200, 3 >>,      \* over capacity
      << 0, TRUE, 200, 2 >> }        \* no capital

BatchSnapshotFields(year, insurers) ==
    { [year |-> year, capital |-> f[1], is_solvent |-> f[2], loss_ratio |-> f[3],
       num_customers |-> f[4], price |-> 1010, market_share |-> 50] : f \in insurers }

\* snapshot files of at most one row, of the market's final year; every kind
\* of insurer with the one-year markets, a healthy one with the others
BatchSnapshots(m) ==
    LET year == IF m = << >> THEN 0 ELSE FinalYear(m)
        insurers == IF Len(m) = 1 THEN BatchInsurers ELSE { << 1000, TRUE, 200, 2 >> }
    IN  { MkSnapshots(fs) : fs \in SeqsUpTo(BatchSnapshotFields(year, insurers), 1) }

RunFiles ==
    { [summary |-> sm, has_market |-> FALSE, has_snapshots |-> FALSE,
       market |-> << >>, snapshots |-> << >>] : sm \in {"missing", "malformed"} }
    \cup
    { [summary |-> "ok", has_market |-> hm, has_snapshots |-> ~hm,
       market |-> << >>, snapshots |-> << >>] : hm \in BOOLEAN }
    \cup
    UNION { { [summary |-> "ok", has_market |-> TRUE, has_snapshots |-> TRUE,
               market |-> m, snapshots |-> s] : s \in BatchSnapshots(m) } :
            m \in BatchMarkets }

\* line 267: market_csv.exists() and insurer_csv.exists(), the summary loaded
HasChecks(files) ==
    files.summary = "ok" /\ files.has_market /\ files.has_snapshots

InitBatch ==
    /\ StatIdle
    /\ pc = "start"
    /\ entries \in { S \in SUBSET RunIndices : Cardinality(S) <= MaxRuns }
    /\ run_dirs = << >>
    /\ processed = << >>
    /\ all_shadow_issues = << >>
    /\ all_capacity_violations = << >>
    /\ all_insolvency_stats = << >>
    /\ all_loss_explosions = << >>
    /\ all_stationarity_results = << >>
    /\ total_issues = None
    /\ stationarity_summary = None
    /\ RunIdle
    /\ Exp1Idle
    /\ CycleIdle

Lists == << all_shadow_issues, all_capacity_violations, all_insolvency_stats,
            all_loss_explosions, all_stationarity_results >>

\* lines 240-247: the sorted run list, or the early return without one
FindRuns ==
    /\ UNCHANGED StatVars
    /\ pc = "start"
    /\ run_dirs' = Sorted(entries)
    /\ pc' = IF entries = {} THEN "returned" ELSE "loop"
    /\ UNCHANGED << entries, processed, Lists, total_issues,
                    stationarity_summary, RunVars,
                    Exp1Vars, CycleVars >>

AppendIfMutant(list, cond, entry) == Append(list, entry)

\* if flag: all_x.append(entry)
AppendIf(list, cond, entry) == IF cond THEN Append(list, entry) ELSE list

\* lines 256-316: one iteration of the loop
ProcessRun ==
    /\ UNCHANGED StatVars
    /\ pc = "loop"
    /\ run_dirs # << >>
    /\ \E files \in RunFiles, leverage_ratio \in Leverages, dtype \in RowDtypes,
          p \in PValues :
         LET run == Head(run_dirs) IN
         /\ run_dirs' = Tail(run_dirs)
         /\ processed' = Append(processed, [run |-> run, files |-> files])
         /\ market_ts' = files.market
         /\ insurer_snapshots' = files.snapshots
         /\ IF files.summary = "missing"
              THEN \* continue
                   /\ pc' = "loop"
                   /\ run_out' = None
                   /\ UNCHANGED Lists
            ELSE IF files.summary = "malformed"
              THEN \* json.load raises out of the loop
                   /\ pc' = "raised"
                   /\ run_out' = None
                   /\ UNCHANGED Lists
            ELSE IF ~HasChecks(files)
              THEN /\ pc' = "loop"
                   /\ run_out' = None
                   /\ UNCHANGED Lists
            ELSE LET r == RunChecks(files.market, files.snapshots,
                                    leverage_ratio, dtype, p)
                 IN  /\ run_out' = r
                     /\ all_shadow_issues' =
                          AppendIf(all_shadow_issues, ~r.shadow.is_consistent,
                                   [run |-> run, result |-> r.shadow.result])
                     /\ IF r.raised
                          THEN /\ pc' = "raised"
                               /\ UNCHANGED << all_capacity_violations,
                                               all_insolvency_stats,
                                               all_loss_explosions,
                                               all_stationarity_results >>
                          ELSE /\ pc' = "loop"
                               /\ all_capacity_violations' =
                                    AppendIf(all_capacity_violations,
                                             r.capacity.has_violations,
                                             [run |-> run,
                                              violations |-> r.capacity.violations])
                               /\ all_insolvency_stats' =
                                    Append(all_insolvency_stats,
                                           [run |-> run,
                                            stats |-> r.insolvency.stats,
                                            exceeds_threshold |->
                                              r.insolvency.exceeds_threshold])
                               /\ all_loss_explosions' =
                                    AppendIf(all_loss_explosions,
                                             r.explosions.has_explosions,
                                             [run |-> run,
                                              explosions |-> r.explosions.explosions])
                               /\ all_stationarity_results' =
                                    Append(all_stationarity_results,
                                           [run |-> run,
                                            is_stationary |-> r.stationarity.is_stationary,
                                            p_value |->
                                              GetPValue(r.stationarity.test_results)])
    /\ UNCHANGED << entries, total_issues, stationarity_summary, Exp1Vars,
                    CycleVars >>

\* lines 380-383
TotalIssues ==
    LET Exceeds(s) == s.exceeds_threshold
    IN  Len(all_shadow_issues) + Len(all_capacity_violations)
          + Len(all_loss_explosions) + Len(SelectSeq(all_insolvency_stats, Exceeds))

TruthyMutant(v) == v # Some(FALSE)

\* `if r['is_stationary']`: None and False do not count
Truthy(v) == v = Some(TRUE)

\* lines 364-369: the stationary runs, the number of results and the
\* percentage printed, nothing when there are no results
StationaritySummary ==
    IF all_stationarity_results # << >>
      THEN LET IsStationary(r) == Truthy(r.is_stationary)
               stationary_count ==
                   Len(SelectSeq(all_stationarity_results, IsStationary))
           IN  Some([stationary_count |-> stationary_count,
                     denominator |-> Len(all_stationarity_results),
                     pct_stationary |->
                         [num |-> stationary_count * 100,
                          den |-> Len(all_stationarity_results)]])
      ELSE None

\* lines 318-405: the report and the overall verdict
Report ==
    /\ UNCHANGED StatVars
    /\ pc = "loop"
    /\ run_dirs = << >>
    /\ stationarity_summary' = StationaritySummary
    /\ total_issues' = Some(TotalIssues)
    /\ pc' = "done"
    /\ UNCHANGED << entries, run_dirs, processed, Lists, RunVars,
                    Exp1Vars, CycleVars >>

NextBatch == FindRuns \/ ProcessRun \/ Report

SpecBatch == InitBatch /\ [][NextBatch]_vars

(***************************************************************************)
(* What the specification calls a flagged condition of a run, read off the *)
(* run's files.                                                            *)
(***************************************************************************)
IsChecked == pc \in {"analysed", "raised"}

SolventNegative(m, s) ==
    LET Bad(r) == r.is_solvent /\ r.capital < 0
    IN  IF m = << >> THEN << >> ELSE SelectSeq(FinalInsurers(m, s), Bad)

Healthy(r) == r.capital >= 0 /\ r.loss_ratio <= 200

OverCapacity(s, leverage_ratio) ==
    \E k \in DOMAIN s :
       /\ s[k].is_solvent
       /\ s[k].num_customers * s[k].price * 1000 > s[k].capital * leverage_ratio * 101

InsolvencyAbove(s) ==
    LET n == Cardinality({ k \in DOMAIN s : ~s[k].is_solvent })
    IN  Len(s) > 0 /\ n * 100 > 20 * Len(s)

Flagged(files) ==
    /\ HasChecks(files)
    /\ \/ SolventNegative(files.market, files.snapshots) # << >>
       \/ /\ files.market # << >>
          /\ \E r \in Range(FinalInsurers(files.market, files.snapshots)) :
                r.loss_ratio > 200
       \/ OverCapacity(files.snapshots, DefaultLeverage)
       \/ InsolvencyAbove(files.snapshots)
       \/ \E t \in DOMAIN files.market : files.market[t].loss_ratio > 200

\* C1: once the batch has reported, the verdict is pass (total_issues = 0)
\* exactly when no processed run has a flagged condition: no solvent insurer
\* with negative capital, no extreme loss ratio, no capacity violation, no
\* insolvency rate above the threshold, no loss-ratio explosion
C1_PassIffNoFlaggedRun ==
    pc = "done" =>
      (total_issues = Some(0)
         <=> \A k \in DOMAIN processed : ~Flagged(processed[k].files))

IssuesOfType(result, type) ==
    LET OfType(i) == i.type = type
    IN  IF "issues" \in DOMAIN result THEN SelectSeq(result.issues, OfType) ELSE << >>

\* C2: the negative-capital check reports exactly the final-year insurers that
\* are solvent and have capital < 0: the issue's id list and count are theirs,
\* and there is no such issue when there is none
C2_FlagsExactlySolventNegative ==
    (IsChecked /\ "issues" \in DOMAIN run_out.shadow.result) =>
      LET expected == SolventNegative(market_ts, insurer_snapshots)
          reported == IssuesOfType(run_out.shadow.result, "negative_capital")
      IN  IF expected = << >> THEN reported = << >>
          ELSE /\ Len(reported) = 1
               /\ reported[1].count = Len(expected)
               /\ reported[1].insurer_ids = Column(expected, "insurer_id")

AllHealthyFinalYear ==
    /\ market_ts # << >>
    /\ FinalInsurers(market_ts, insurer_snapshots) # << >>
    /\ \A r \in Range(FinalInsurers(market_ts, insurer_snapshots)) : Healthy(r)

\* C3: on a non-empty market series and a final-year snapshot set of healthy
\* insurers only (capital >= 0, loss_ratio <= 2.0) the shadow-state check
\* returns no issue and is_consistent = true, whatever the market shares
C3_AllHealthyPasses ==
    (IsChecked /\ AllHealthyFinalYear) =>
      /\ run_out.shadow.is_consistent
      /\ run_out.shadow.result.issues = << >>
      /\ run_out.shadow.result.checks.negative_capital_count = 0
      /\ run_out.shadow.result.checks.extreme_loss_ratio_count = 0

\* C3 witness: an all-healthy final year whose shares do not sum to 1.0 has
\* been checked, next to an unhealthy row of another year
C3_Witness ==
    /\ IsChecked
    /\ AllHealthyFinalYear
    /\ run_out.shadow.result.checks.market_share_error > 3
    /\ \E r \in Range(insurer_snapshots) : ~Healthy(r)
    /\ run_out.shadow.is_consistent

\* C4: the checks of a run never abort: they complete on every input and the
\* shadow-state result carries the issue list and the results of its checks
C4_CheckerNeverAborts ==
    IsChecked =>
      /\ pc = "analysed"
      /\ {"issues", "checks"} \subseteq DOMAIN run_out.shadow.result

ReportedRuns ==
    UNION { { list[k].run : k \in DOMAIN list } :
            list \in { all_shadow_issues, all_capacity_violations,
                       all_insolvency_stats, all_loss_explosions,
                       all_stationarity_results } }

Unloadable(files) == files.summary \in {"missing", "malformed"}

\* C5: a run whose input is missing or malformed does not abort the batch: the
\* loop goes on to the other runs, and the report records the run as skipped
C5_FailedRunIsSkippedAndRecorded ==
    /\ (pc = "raised" => ~Unloadable(processed[Len(processed)].files))
    /\ (pc = "done" =>
          \A k \in DOMAIN processed :
             Unloadable(processed[k].files) => processed[k].run \in ReportedRuns)

\* C7: the runs are processed in increasing replication-index order
C7_RunsInIndexOrder ==
    \A i, j \in DOMAIN run_dirs : i < j => run_dirs[i] < run_dirs[j]

\* C8: no routine yields inf or nan, or raises, on a zero denominator: the
\* percent overage of a capacity violation is a finite number or undetermined
C8_NoSilentInf ==
    IsChecked =>
      /\ pc # "raised"
      /\ \A v \in Range(run_out.capacity.violations) : v.violation_pct.den # 0

ChecksDone(k) ==
    /\ HasChecks(processed[k].files)
    /\ ~(pc = "raised" /\ k = Len(processed))

StationarityOf(run) ==
    LET Of(e) == e.run = run IN SelectSeq(all_stationarity_results, Of)

\* C9: with fewer than 10 observations fit_ar2_yule_walker returns None and
\* check_stationarity returns None with no p-value, without raising; with 10
\* both go on to compute; and the batch goes on with the other checks and runs
C9_ShortSeriesUndetermined ==
    \A k \in DOMAIN processed :
       LET files == processed[k].files
           series == Column(files.market, "loss_ratio")
           short == Len(series) < 10
       IN  /\ (HasChecks(files) /\ short /\ k = Len(processed) /\ pc = "raised")
                => run_out.raised
           /\ ChecksDone(k) =>
                LET res == StationarityOf(processed[k].run) IN
                /\ Len(res) = 1
                /\ (short <=> (res[1].is_stationary = None))
                /\ (short <=> (res[1].p_value = None))
                /\ (short <=> (fit_ar2_yule_walker(series).kind = "None"))

\* C9 witness: a run of 9 observations and a run of 10 have both been
\* analysed, the first undetermined and the second determined
C9_Witness ==
    /\ pc = "done"
    /\ \E j, k \in DOMAIN processed :
          /\ j < k
          /\ HasChecks(processed[j].files) /\ HasChecks(processed[k].files)
          /\ Len(processed[j].files.market) = 9
          /\ Len(processed[k].files.market) = 10
          /\ StationarityOf(processed[j].run)[1].is_stationary = None
          /\ StationarityOf(processed[k].run)[1].is_stationary # None

(***************************************************************************)
(* lloyds_insurance/analysis/experiment_1.analyze_convergence              *)
(* Premiums are in units of 10,000: the fair price with loading,           *)
(* 3,000,000 * 0.1 * 0.5 * 1.2 = 180,000, is 18.                           *)
(***************************************************************************)
NumReps == 10
MinActiveYears == 30
FinalYears == 20
MinWithinBounds == 7
FairPrice == 18

\* a replication's time series: the years with solvent syndicates, then the
\* years after the market has collapsed
MkFrame(active, collapsed, premium) ==
    [t \in 1..(active + collapsed) |->
        [num_solvent_syndicates |-> IF t <= active THEN 1 ELSE 0,
         avg_premium |-> IF t <= active THEN premium ELSE 0]]

Exp1Frames ==
    { MkFrame(MinActiveYears - 1, 21, 18),
      MkFrame(MinActiveYears, 20, 18),
      MkFrame(50, 0, 30) }

ActiveRowsMutant(df) ==
    LET Active(row) == row.num_solvent_syndicates >= 0 IN SelectSeq(df, Active)

\* df[df['num_solvent_syndicates'] > 0]
ActiveRows(df) ==
    LET Active(row) == row.num_solvent_syndicates > 0 IN SelectSeq(df, Active)

Min2(a, b) == IF a < b THEN a ELSE b

\* df.tail(k)
TailRows(df, k) == SubSeq(df, Len(df) - k + 1, Len(df))

\* the mean of a column, as an exact quotient
MeanOf(rows, c) == [num |-> SumSeq(Column(rows, c)), den |-> Len(rows)]

\* the squared coefficient of variation std^2 / mean^2 (std with ddof = 1),
\* 0 when the mean is not positive: with q the sum of (n*x - sum)^2 it is
\* q / ((n - 1) * sum^2)
CvSquared(rows, c) ==
    LET x == Column(rows, c)
        n == Len(x)
        total == SumSeq(x)
        q == SumSeq([t \in 1..n |-> (n * x[t] - total) * (n * x[t] - total)])
    IN  IF total > 0 /\ n > 1 THEN [num |-> q, den |-> (n - 1) * total * total]
        ELSE [num |-> 0, den |-> 1]

QLess(a, b) == a.num * b.den < b.num * a.den

WithinBounds(final_avg) ==
    /\ FairPrice * 8 * final_avg.den <= final_avg.num * 10
    /\ final_avg.num * 10 <= FairPrice * 12 * final_avg.den

\* lines 61-93: the result row of a replication with enough active years
ConvergenceRow(r, active_df) ==
    LET midpoint == Len(active_df) \div 2
        early_period == SubSeq(active_df, 1, midpoint)
        late_period == SubSeq(active_df, midpoint + 1, Len(active_df))
        final_years == TailRows(active_df, Min2(FinalYears, Len(active_df)))
        final_avg == MeanOf(final_years, "avg_premium")
    IN  [rep |-> r,
         active_years |-> Len(active_df),
         final_20yr_avg |-> final_avg,
         cv_decreased |-> QLess(CvSquared(late_period, "avg_premium"),
                                CvSquared(early_period, "avg_premium")),
         within_bounds |-> WithinBounds(final_avg)]

\* pd.DataFrame(convergence_results).columns: the keys of the rows, none for
\* an empty list
ColumnsOf(rows) == IF rows = << >> THEN {} ELSE DOMAIN rows[1]

InitExp1 ==
    /\ StatIdle
    /\ pc = "loop"
    /\ rep = 0
    /\ convergence_results = << >>
    /\ summary = None
    /\ RunIdle
    /\ BatchIdle
    /\ CycleIdle

\* lines 51-52: the replication's file is not there, pd.read_csv raises
Exp1LoadFails ==
    /\ UNCHANGED StatVars
    /\ pc = "loop"
    /\ rep < NumReps
    /\ pc' = "raised"
    /\ UNCHANGED << Exp1Vars, RunVars, BatchVars, CycleVars >>

\* lines 51-105: one iteration of the loop on a loaded replication
Exp1Replication ==
    /\ UNCHANGED StatVars
    /\ pc = "loop"
    /\ rep < NumReps
    /\ \E df \in Exp1Frames :
         LET active_df == ActiveRows(df) IN
         convergence_results' =
           IF Len(active_df) < MinActiveYears
             THEN convergence_results      \* continue
             ELSE Append(convergence_results, ConvergenceRow(rep, active_df))
    /\ rep' = rep + 1
    /\ UNCHANGED << pc, summary, RunVars, BatchVars, CycleVars >>

CountWhere(rows, c) == Cardinality({ k \in DOMAIN rows : rows[k][c] })

\* lines 107-135: the summary; results_df['within_bounds'] (line 114) raises
\* KeyError on a frame without columns, after line 113 has printed
Exp1Summary ==
    /\ UNCHANGED StatVars
    /\ pc = "loop"
    /\ rep = NumReps
    /\ IF "within_bounds" \in ColumnsOf(convergence_results)
         THEN /\ pc' = "done"
              /\ summary' =
                   Some([successful |-> Len(convergence_results),
                         total |-> NumReps,
                         within_bounds |-> CountWhere(convergence_results, "within_bounds"),
                         cv_decreased |-> CountWhere(convergence_results, "cv_decreased"),
                         success |-> CountWhere(convergence_results, "within_bounds")
                                       >= MinWithinBounds])
         ELSE /\ pc' = "raised"
              /\ summary' =
                   Some([successful |-> Len(convergence_results), total |-> NumReps])
    /\ UNCHANGED << rep, convergence_results, RunVars, BatchVars, CycleVars >>

NextExp1 == Exp1LoadFails \/ Exp1Replication \/ Exp1Summary

SpecExp1 == InitExp1 /\ [][NextExp1]_vars

\* C6: a batch in which every replication is skipped finalizes without raising
\* and reports 0 valid runs and as many skipped runs as there are replications
C6_AllSkippedFinalizes ==
    (rep = NumReps /\ convergence_results = << >> /\ pc # "loop") =>
      /\ pc = "done"
      /\ summary[1].successful = 0
      /\ summary[1].total - summary[1].successful = NumReps

(***************************************************************************)
(* cycle_analysis.detect_cycles_peaks, with scipy.signal.find_peaks.       *)
(* Indices are Python's: sample t of the series is series[t + 1].          *)
(***************************************************************************)
At(x, i) == x[i + 1]

\* scipy's _local_maxima_1d: a plateau l..r of equal samples, not touching
\* either end, with a lower sample on each side, gives the peak (l + r) // 2
LocalMaxima(x) ==
    LET n == Len(x)
        IsPlateau(l, r) ==
          /\ 1 <= l /\ l <= r /\ r <= n - 2
          /\ \A i \in l..r : At(x, i) = At(x, l)
          /\ At(x, l - 1) < At(x, l)
          /\ At(x, r + 1) < At(x, r)
        found == { m \in 0..(n - 1) :
                     \E l \in 1..(n - 2), r \in 1..(n - 2) :
                        IsPlateau(l, r) /\ m = (l + r) \div 2 }
    IN  found

RECURSIVE SetToSortedSeq(_)
SetToSortedSeq(S) ==
    IF S = {} THEN << >>
    ELSE LET least == CHOOSE a \in S : \A b \in S : a <= b
         IN  << least >> \o SetToSortedSeq(S \ {least})

\* scipy's _select_by_peak_distance: the peaks are visited from the highest
\* to the lowest (np.argsort of the heights read from its end, so of two
\* equally high peaks the later one first) and each visited peak that is
\* still kept removes the peaks closer than distance to it
HigherPriorityMutant(x, a, b) ==
    \/ At(x, a) > At(x, b)
    \/ (At(x, a) = At(x, b) /\ a < b)

HigherPriority(x, a, b) ==
    \/ At(x, a) > At(x, b)
    \/ (At(x, a) = At(x, b) /\ a > b)

TooCloseMutant(a, b, distance) == Abs(a - b) < distance - 1

\* peaks[j] - peaks[k] < distance
TooClose(a, b, distance) == Abs(a - b) < distance

RECURSIVE SelectByDistance(_, _, _, _)
SelectByDistance(x, todo, keep, distance) ==
    IF todo = {} THEN keep
    ELSE LET j == CHOOSE a \in todo : \A b \in todo \ {a} : HigherPriority(x, a, b)
             near == { k \in keep : k # j /\ TooClose(k, j, distance) }
         IN  IF j \in keep
               THEN SelectByDistance(x, todo \ {j}, keep \ near, distance)
               ELSE SelectByDistance(x, todo \ {j}, keep, distance)

find_peaks(x, distance) ==
    LET peaks == LocalMaxima(x)
    IN  SetToSortedSeq(SelectByDistance(x, peaks, peaks, distance))

\* np.diff
Diff(s) == [k \in 1..(Len(s) - 1) |-> s[k + 1] - s[k]]

FewPeaksMutant(peaks) == Len(peaks) < 3

FewPeaks(peaks) == Len(peaks) < 2

detect_cycles_peaks(x, distance) ==
    LET peaks == find_peaks(x, distance)
    IN  IF FewPeaks(peaks)
          THEN [peaks |-> peaks, has_cycles |-> FALSE, avg_period |-> None]
          ELSE LET periods == Diff(peaks)
               IN  [peaks |-> peaks,
                    has_cycles |-> Len(peaks) >= 2,
                    avg_period |-> Some([num |-> SumSeq(periods), den |-> Len(periods)])]

MaxSeriesLen == 8
SeriesValues == {1, 2, 3}
MinDistances == {1, 2, 3}

InitCycles ==
    /\ StatIdle
    /\ pc = "call"
    /\ input_series \in SeqsUpTo(SeriesValues, MaxSeriesLen)
    /\ min_distance \in MinDistances
    /\ cycles_out = None
    /\ RunIdle
    /\ BatchIdle
    /\ Exp1Idle

DetectCycles ==
    /\ UNCHANGED StatVars
    /\ pc = "call"
    /\ cycles_out' = Some(detect_cycles_peaks(input_series, min_distance))
    /\ pc' = "returned"
    /\ UNCHANGED << input_series, min_distance, RunVars, BatchVars, Exp1Vars >>

NextCycles == DetectCycles

SpecCycles == InitCycles /\ [][NextCycles]_vars

\* C10: detect_cycles_peaks returns has_cycles = true exactly when it found
\* at least 2 peaks; the period is then (last peak - first peak) divided by
\* (number of peaks - 1), and it is undetermined exactly when has_cycles is
\* false
C10_CyclesIffTwoPeaks ==
    pc = "returned" =>
      LET out == cycles_out[1]
          n == Len(out.peaks)
      IN  /\ out.has_cycles <=> n >= 2
          /\ out.has_cycles <=> out.avg_period # None
          /\ out.has_cycles =>
               out.avg_period[1] = [num |-> out.peaks[n] - out.peaks[1], den |-> n - 1]

\* C10 witness: three peaks with unequal gaps have been found
C10_Witness ==
    /\ pc = "returned"
    /\ cycles_out[1].has_cycles
    /\ Len(cycles_out[1].peaks) = 3
    /\ cycles_out[1].peaks[2] - cycles_out[1].peaks[1]
         # cycles_out[1].peaks[3] - cycles_out[1].peaks[2]

\* C11: any two peaks reported by detect_cycles_peaks are at least
\* min_distance indices apart; a series with two local maxima closer than
\* min_distance gives one peak, and a series with exactly two local maxima at
\* least min_distance apart gives exactly those 2 peaks
C11_PeaksAtLeastDistanceApart ==
    pc = "returned" =>
      LET peaks == cycles_out[1].peaks
          maxima == LocalMaxima(input_series)
      IN  /\ \A j, k \in DOMAIN peaks :
               j < k => peaks[k] - peaks[j] >= min_distance
          /\ (Cardinality(maxima) = 2
                /\ \E a, b \in maxima : a # b /\ Abs(a - b) < min_distance)
               => Len(peaks) = 1
          /\ (Cardinality(maxima) = 2
                /\ \A a, b \in maxima : a # b => Abs(a - b) >= min_distance)
               => Range(peaks) = maxima /\ Len(peaks) = 2

\* C11 witness: two local maxima two indices apart under min_distance = 3
\* have been reduced to one peak
C11_Witness ==
    /\ pc = "returned"
    /\ min_distance = 3
    /\ Cardinality(LocalMaxima(input_series)) = 2
    /\ \E a \in LocalMaxima(input_series) : a + 2 \in LocalMaxima(input_series)
    /\ Len(cycles_out[1].peaks) = 1

(***************************************************************************)
(* cycle_analysis.check_cycle_conditions.  A coefficient is a float: nan,  *)
(* as fit_ar2_yule_walker gives for a constant series, or a number kept    *)
(* in hundredths.                                                          *)
(***************************************************************************)
NaN == [nan |-> TRUE, v |-> 0]
Num(v) == [nan |-> FALSE, v |-> v]

\* every comparison with nan is false
FloatLess(a, b) == ~a.nan /\ ~b.nan /\ a.v < b.v

\* Python's x and y: x when x is false, else y
PyAnd(x, y) == IF ~x THEN x ELSE y

PositiveFeedback(a1) == FloatLess(Num(0), a1)

DampedMutant(a2) == FloatLess(Num(-100), a2)

\* -1 < a2 < 0, the chained comparison
Damped(a2) == PyAnd(FloatLess(Num(-100), a2), FloatLess(a2, Num(0)))

ComplexRootsMutant(a1, a2) ==
    IF a1.nan \/ a2.nan THEN FALSE ELSE a1.v + 400 * a2.v < 0

\* a1**2 + 4*a2 < 0, with a1 and a2 in hundredths: a1^2 + 400 * a2 < 0 in
\* ten-thousandths
ComplexRoots(a1, a2) ==
    IF a1.nan \/ a2.nan THEN FALSE ELSE a1.v * a1.v + 400 * a2.v < 0

check_cycle_conditions(a1, a2) ==
    LET cond1 == PositiveFeedback(a1)
        cond2 == Damped(a2)
        cond3 == ComplexRoots(a1, a2)
    IN  [met |-> PyAnd(PyAnd(cond1, cond2), cond3),
         conditions |-> << cond1, cond2, cond3 >>]

A1Values == { -50, 0, 1, 47, 63, 64, 150, 200, 250 }
A2Values == { -150, -101, -100, -99, -50, -10, -1, 0, 1, 50 }
Coefficients(S) == { Num(v) : v \in S } \cup { NaN }

InitConditions ==
    /\ pc = "call"
    /\ ar2_a1 \in Coefficients(A1Values)
    /\ ar2_a2 \in Coefficients(A2Values)
    /\ conditions_out = None
    /\ OthersIdle("cond")

CheckConditions ==
    /\ pc = "call"
    /\ conditions_out' = Some(check_cycle_conditions(ar2_a1, ar2_a2))
    /\ pc' = "returned"
    /\ UNCHANGED << ar2_a1, ar2_a2 >>
    /\ OthersUnchanged("cond")

NextConditions == CheckConditions

SpecConditions == InitConditions /\ [][NextConditions]_vars

\* C12: check_cycle_conditions reports met = (a1 > 0) and (-1 < a2 < 0) and
\* (a1^2 + 4*a2 < 0), reports the three conditions one by one, and met is
\* true exactly when the three reported conditions are true
C12_MetIffAllThree ==
    pc = "returned" =>
      LET out == conditions_out[1]
          real == ~ar2_a1.nan /\ ~ar2_a2.nan
          c1 == real /\ ar2_a1.v > 0
          c2 == real /\ -100 < ar2_a2.v /\ ar2_a2.v < 0
          c3 == real /\ ar2_a1.v * ar2_a1.v + 400 * ar2_a2.v < 0
      IN  /\ real => out.conditions = << c1, c2, c3 >>
          /\ real => (out.met <=> (c1 /\ c2 /\ c3))
          /\ out.met <=> (\A k \in 1..3 : out.conditions[k])

\* C12 witness: the paper's coefficients a1 = 0.47, a2 = -0.10 meet the three
\* conditions
C12_Witness ==
    /\ pc = "returned"
    /\ ar2_a1 = Num(47)
    /\ ar2_a2 = Num(-10)
    /\ conditions_out[1].met
    /\ conditions_out[1].conditions = << TRUE, TRUE, TRUE >>

(***************************************************************************)
(* The periodograms: cycle_analysis.periodogram,                           *)
(* plot_spectral.compute_periodogram and experiment_2.analyze_cycles       *)
(* (scipy.signal.periodogram of the linearly detrended series).            *)
(* A frequency is a reduced fraction of a cycle per year.  cos and sin are *)
(* taken at hundredths of a turn and rounded to hundredths; a power is     *)
(* known up to the square of the factor that makes the deviations          *)
(* integers, which the position of the maximum does not depend on.         *)
(***************************************************************************)
Frac(num, den) ==
    LET g == Gcd(Abs(num), Abs(den))
    IN  IF g = 0 THEN [num |-> num, den |-> den]
        ELSE [num |-> num \div g, den |-> den \div g]

\* round(100 * cos(2 pi k / 100)) for k = 0..25
QuarterCos ==
    << 100, 100, 99, 98, 97, 95, 93, 90, 88, 84, 81, 77, 73, 68, 64, 59, 54,
       48, 43, 37, 31, 25, 19, 13, 6, 0 >>

\* np.cos(2 pi k / 100)
Cos100(k) ==
    LET r == k % 100
    IN  IF r <= 25 THEN QuarterCos[r + 1]
        ELSE IF r <= 50 THEN -QuarterCos[50 - r + 1]
        ELSE IF r <= 75 THEN -QuarterCos[r - 50 + 1]
        ELSE QuarterCos[100 - r + 1]

\* np.sin(2 pi k / 100)
Sin100(k) == Cos100(k + 75)

\* a power is a natural number hi * 10^6 + lo with lo < 10^6, wide enough for
\* the squares of sums below 10^6 in absolute value
Wide(hi, lo) == [hi |-> hi + lo \div 1000000, lo |-> lo % 1000000]

WideSquare(a) ==
    LET ah == Abs(a) \div 1000
        al == Abs(a) % 1000
        mid == 2 * ah * al
    IN  Wide(ah * ah + mid \div 1000, (mid % 1000) * 1000 + al * al)

WideAdd(p, q) == Wide(p.hi + q.hi, p.lo + q.lo)

WideLess(p, q) == p.hi < q.hi \/ (p.hi = q.hi /\ p.lo < q.lo)

\* cos_sum**2 + sin_sum**2 of the deviations d at turns-per-sample m / 100
PowerAt(d, m) ==
    LET n == Len(d)
        cos_sum == SumSeq([t \in 1..n |-> d[t] * Cos100(m * (t - 1))])
        sin_sum == SumSeq([t \in 1..n |-> d[t] * Sin100(m * (t - 1))])
    IN  WideAdd(WideSquare(cos_sum), WideSquare(sin_sum))

GridFirst == 5
GridLast == 50

\* np.arange(0.05, 0.51, 0.01), in hundredths
FreqGrid == [i \in 1..(GridLast - GridFirst + 1) |-> GridFirst + i - 1]

ArgMaxMutant(s) == CHOOSE i \in DOMAIN s :
                /\ \A j \in DOMAIN s : ~WideLess(s[i], s[j])
                /\ \A j \in DOMAIN s : j > i => WideLess(s[j], s[i])

\* np.argmax: the first position of the maximum
ArgMax(s) == CHOOSE i \in DOMAIN s :
                /\ \A j \in DOMAIN s : ~WideLess(s[i], s[j])
                /\ \A j \in DOMAIN s : j < i => WideLess(s[j], s[i])

\* cycle_analysis.periodogram
periodogram(series) ==
    LET deviation == Deviations(series)
    IN  [freqs |-> [i \in DOMAIN FreqGrid |-> Frac(FreqGrid[i], 100)],
         power |-> [i \in DOMAIN FreqGrid |-> PowerAt(deviation, FreqGrid[i])]]

\* plot_spectral.compute_periodogram
compute_periodogram(series) ==
    LET mean_free == Deviations(series)
    IN  [freqs |-> [i \in DOMAIN FreqGrid |-> Frac(FreqGrid[i], 100)],
         power |-> [i \in DOMAIN FreqGrid |-> PowerAt(mean_free, FreqGrid[i])]]

\* freqs[np.argmax(power)]
DominantFreq(spectrum) == spectrum.freqs[ArgMax(spectrum.power)]

\* np.inf as a period
PeriodInf == [num |-> 1, den |-> 0]

\* 1.0 / dominant_freq if dominant_freq > 0 else otherwise
PeriodOf(dominant_freq, otherwise) ==
    IF dominant_freq.num > 0
      THEN Frac(dominant_freq.den, dominant_freq.num)
      ELSE otherwise

\* scipy.signal.detrend(x): the residuals of the least-squares line, up to a
\* common positive factor
Detrend(x) ==
    LET n == Len(x)
        st == SumSeq([t \in 1..n |-> t - 1])
        stt == SumSeq([t \in 1..n |-> (t - 1) * (t - 1)])
        sx == SumSeq(x)
        stx == SumSeq([t \in 1..n |-> (t - 1) * x[t]])
        det == n * stt - st * st
        slope == n * stx - st * sx              \* times det
        icept == stt * sx - st * stx            \* times det
        r == [t \in 1..n |-> det * x[t] - icept - slope * (t - 1)]
        g == GcdSeq(r)
    IN  IF g = 0 THEN r ELSE [t \in 1..n |-> r[t] \div g]

\* scipy.signal.periodogram(x) with fs = 1: the frequencies k / n for
\* k = 0..n // 2 and the one-sided density, in which every bin but the
\* zero frequency and, for even n, the last one counts twice
ScipyPeriodogram(x) ==
    LET n == Len(x)
        d == Deviations(x)                      \* detrend = 'constant'
        last == n \div 2
        Sided(k) == IF k = 0 \/ (n % 2 = 0 /\ k = last) THEN 1 ELSE 2
    IN  [freqs |-> [i \in 1..(last + 1) |-> Frac(i - 1, n)],
         power |-> [i \in 1..(last + 1) |->
                      LET pw == PowerAt(d, ((i - 1) * 100) \div n)
                      IN  IF Sided(i - 1) = 2 THEN WideAdd(pw, pw) ELSE pw]]

\* experiment_2.analyze_cycles lines 88-103 on the premiums of the active
\* years
Exp2Spectrum(premiums) ==
    IF Len(premiums) > 10
      THEN LET sp == ScipyPeriodogram(Detrend(premiums))
               tail == [i \in 1..(Len(sp.power) - 1) |-> sp.power[i + 1]]
           IN  IF Len(sp.freqs) > 1
                 THEN [freqs |-> sp.freqs,
                       dominant_freq |-> Some(sp.freqs[ArgMax(tail) + 1])]
                 ELSE [freqs |-> sp.freqs, dominant_freq |-> None]
      ELSE [freqs |-> << >>, dominant_freq |-> None]

\* the series of the model: a level, a linear trend and a square wave of
\* period p that is symmetric about the middle of the series; their lengths
\* divide 100, so that every frequency k / n is a whole number of hundredths
SpectralLengths == {20, 25}
SpectralPeriods == {3, 4, 7, 10, 14}
SpectralSlopes == {0, 1}

Wave(p, t, n) == IF (Min2(t, n - 1 - t) % p) * 2 < p THEN 1 ELSE 0

SpectralSeries ==
    { [t \in 1..n |-> 100 + slope * (t - 1) + 2 * Wave(p, t - 1, n)] :
        n \in SpectralLengths, p \in SpectralPeriods, slope \in SpectralSlopes }
    \cup { [t \in 1..n |-> 100] : n \in SpectralLengths }

InitSpectral ==
    /\ pc = "spectral"
    /\ spectral_series \in SpectralSeries
    /\ diag_out = None
    /\ plot_out = None
    /\ exp2_out = None
    /\ multi_out = None
    /\ OthersIdle("spectral")

\* cycle_analysis.plot_cycle_diagnostics, panel 4
PlotCycleDiagnostics ==
    /\ diag_out = None
    /\ pc = "spectral"
    /\ LET sp == periodogram(spectral_series)
           dominant_freq == DominantFreq(sp)
       IN  diag_out' = Some([freqs |-> sp.freqs, power |-> sp.power,
                             dominant_freq |-> Some(dominant_freq),
                             dominant_period |->
                                 PeriodOf(dominant_freq, Frac(0, 1))])
    /\ UNCHANGED << pc, spectral_series, plot_out, exp2_out, multi_out >>
    /\ OthersUnchanged("spectral")

\* plot_spectral.plot_single_periodogram
PlotSinglePeriodogram ==
    /\ plot_out = None
    /\ pc = "spectral"
    /\ LET sp == compute_periodogram(spectral_series)
           dominant_freq == DominantFreq(sp)
       IN  plot_out' = Some([freqs |-> sp.freqs, power |-> sp.power,
                             dominant_freq |-> Some(dominant_freq),
                             dominant_period |->
                                 PeriodOf(dominant_freq, PeriodInf)])
    /\ UNCHANGED << pc, spectral_series, diag_out, exp2_out, multi_out >>
    /\ OthersUnchanged("spectral")

\* one run of plot_spectral.plot_multi_run_periodogram (the dominant
\* frequency it collects) and of plot_period_histogram (the period it
\* collects, none when the frequency is not positive)
PlotMultiRun ==
    /\ multi_out = None
    /\ pc = "spectral"
    /\ LET sp == compute_periodogram(spectral_series)
           dominant_freq == DominantFreq(sp)
       IN  multi_out' = Some([dominant_freq |-> dominant_freq,
                              periods |->
                                  IF dominant_freq.num > 0
                                    THEN << PeriodOf(dominant_freq, PeriodInf) >>
                                    ELSE << >>])
    /\ UNCHANGED << pc, spectral_series, diag_out, plot_out, exp2_out >>
    /\ OthersUnchanged("spectral")

\* experiment_2.analyze_cycles, spectral analysis of one replication
AnalyzeCyclesSpectrum ==
    /\ exp2_out = None
    /\ pc = "spectral"
    /\ exp2_out' = Some(Exp2Spectrum(spectral_series))
    /\ UNCHANGED << pc, spectral_series, diag_out, plot_out, multi_out >>
    /\ OthersUnchanged("spectral")

NextSpectral ==
    \/ PlotCycleDiagnostics
    \/ PlotSinglePeriodogram
    \/ PlotMultiRun
    \/ AnalyzeCyclesSpectrum

SpecSpectral == InitSpectral /\ [][NextSpectral]_vars

\* C13: every consumer takes the spectrum of a series by the same routine on
\* the same grid from 0.05 to 0.50 in steps of 0.01: the two periodogram
\* routines give the same frequencies and powers, and the spectral analysis
\* of experiment_2 has the same frequencies and the same dominant frequency
C13_OnePeriodogram ==
    /\ (diag_out # None /\ plot_out # None) =>
         /\ diag_out[1].freqs = plot_out[1].freqs
         /\ diag_out[1].power = plot_out[1].power
         /\ diag_out[1].freqs = [i \in 1..46 |-> Frac(4 + i, 100)]
    /\ (diag_out # None /\ exp2_out # None) =>
         /\ exp2_out[1].freqs = diag_out[1].freqs
         /\ exp2_out[1].dominant_freq = diag_out[1].dominant_freq

(***************************************************************************)
(* lloyds_insurance/analysis/experiment_5.analyze_equilibrium: the         *)
(* steady-state loss ratio of every replication of every scenario.         *)
(* Loss ratios are in hundredths.                                          *)
(***************************************************************************)
Scenarios == << 1, 2, 3, 4 >>
Exp5Reps == 10
MinSteadyYears == 20
SteadyYears == 30

\* a replication's time series: rows year 0, 1, ... where the years in
\* inactive have no solvent syndicate left, the first early active years
\* have the loss ratio early_lr and the later ones 100
MkFrame5(years, inactive, early, early_lr) ==
    [t \in 1..years |->
        [year |-> t - 1,
         num_solvent_syndicates |-> IF (t - 1) \in inactive THEN 0 ELSE 3,
         avg_loss_ratio |-> IF (t - 1) \in inactive THEN 0
                            ELSE IF t <= early THEN early_lr ELSE 100]]

Exp5Frames ==
    << MkFrame5(25, {3, 7, 11, 19, 20, 24}, 0, 100),    \* 19 active years
       MkFrame5(25, {3, 7, 11, 19, 24}, 0, 100),        \* 20 active years
       MkFrame5(45, {5, 12, 30, 44}, 11, 500) >>        \* 41 active years

\* the files on disk: for every scenario and replication the frame its file
\* holds, or None for a file that is not there
Exp5Layouts ==
    { [s \in 1..Len(Scenarios) |-> [r \in 0..(Exp5Reps - 1) |->
          Some(Exp5Frames[((k * s + r) % 3) + 1])]] : k \in 0..2 }
    \cup
    { [s \in 1..Len(Scenarios) |-> [r \in 0..(Exp5Reps - 1) |->
          Some(Exp5Frames[IF s = 2 THEN 1 ELSE 3])]] }
    \cup
    { [s \in 1..Len(Scenarios) |-> [r \in 0..(Exp5Reps - 1) |->
          IF s = 3 /\ r = 4 THEN None ELSE Some(Exp5Frames[(r % 3) + 1])]] }

\* scipy.stats.ttest_1samp(values, 1.0).pvalue on a sample without variance,
\* as all samples of the model are: the statistic is 0 / 0
TTestPValue(values) == NaN

QAdd(a, b) == Frac(a.num * b.den + b.num * a.den, a.den * b.den)

RECURSIVE QSum(_)
QSum(values) ==
    IF values = << >> THEN [num |-> 0, den |-> 1]
    ELSE QAdd(Head(values), QSum(Tail(values)))

\* np.mean of a list of exact quotients
MeanOfQuotients(values) ==
    LET total == QSum(values) IN Frac(total.num, total.den * Len(values))

InitExp5 ==
    /\ pc = "exp5"
    /\ exp5_files \in Exp5Layouts
    /\ scenario = 1
    /\ rep5 = 0
    /\ df5 = << >>
    /\ steady_state = << >>
    /\ all_loss_ratios = << >>
    /\ results_by_scenario = << >>
    /\ OthersIdle("exp5")

\* lines 41 and 19-22: the replication's file is not there
Exp5LoadFails ==
    /\ pc = "exp5"
    /\ rep5 < Exp5Reps
    /\ exp5_files[scenario][rep5] = None
    /\ pc' = "raised"
    /\ UNCHANGED Exp5Vars
    /\ OthersUnchanged("exp5")

\* lines 40-49: one replication
Exp5Replication ==
    /\ pc = "exp5"
    /\ rep5 < Exp5Reps
    /\ exp5_files[scenario][rep5] # None
    /\ LET df == exp5_files[scenario][rep5][1]
           active_df == ActiveRows(df)
       IN
         /\ df5' = df
         /\ IF Len(active_df) >= MinSteadyYears
              THEN LET window == TailRows(active_df, Min2(SteadyYears, Len(active_df)))
                       mean_lr == MeanOf(window, "avg_loss_ratio")
                   IN  /\ steady_state' = window
                       /\ all_loss_ratios' =
                            Append(all_loss_ratios, Frac(mean_lr.num, mean_lr.den))
              ELSE UNCHANGED << steady_state, all_loss_ratios >>
    /\ rep5' = rep5 + 1
    /\ UNCHANGED << pc, exp5_files, scenario, results_by_scenario >>
    /\ OthersUnchanged("exp5")

\* lines 51-70 and 34-38: the scenario's aggregate, then the next scenario
Exp5Aggregate ==
    /\ pc = "exp5"
    /\ rep5 = Exp5Reps
    /\ results_by_scenario' =
         IF all_loss_ratios # << >>
           THEN Append(results_by_scenario,
                       [scenario |-> Scenarios[scenario],
                        loss_ratios |-> all_loss_ratios,
                        mean |-> MeanOfQuotients(all_loss_ratios),
                        p_value |-> TTestPValue(all_loss_ratios)])
           ELSE results_by_scenario
    /\ IF scenario < Len(Scenarios)
         THEN /\ scenario' = scenario + 1
              /\ rep5' = 0
              /\ all_loss_ratios' = << >>
              /\ pc' = pc
         ELSE /\ pc' = "criteria"
              /\ UNCHANGED << scenario, rep5, all_loss_ratios >>
    /\ UNCHANGED << exp5_files, df5, steady_state >>
    /\ OthersUnchanged("exp5")

NextExp5 == Exp5LoadFails \/ Exp5Replication \/ Exp5Aggregate

SpecExp5 == InitExp5 /\ [][NextExp5]_vars

\* one replication of experiment_5 has kept the rows with solvent
\* syndicates, taken the last min(30, available) of them in the order of the
\* frame, and left a replication with fewer than 20 such rows out
C14_ReplicationStep ==
    rep5' = rep5 + 1 =>
      LET df == df5'
          eligible == { i \in DOMAIN df : df[i].num_solvent_syndicates > 0 }
          available == Cardinality(eligible)
          size == IF 30 < available THEN 30 ELSE available
          rank == [i \in DOMAIN df |-> Cardinality({ j \in eligible : j <= i })]
          Nth(n) == CHOOSE i \in eligible : rank[i] = n
          window == [j \in 1..size |-> df[Nth(available - size + j)]]
          total == SumSeq([j \in 1..size |-> window[j].avg_loss_ratio])
      IN  /\ pc' = "exp5"
          /\ IF available >= 20
               THEN /\ steady_state' = window
                    /\ Len(all_loss_ratios') = Len(all_loss_ratios) + 1
                    /\ SubSeq(all_loss_ratios', 1, Len(all_loss_ratios))
                         = all_loss_ratios
                    /\ LET m == all_loss_ratios'[Len(all_loss_ratios')]
                       IN  m.num * size = total * m.den
               ELSE /\ all_loss_ratios' = all_loss_ratios
                    /\ steady_state' = steady_state

LimbBits == 15
Base == 32768

RECURSIVE Norm(_)
Norm(a) ==
    IF a # << >> /\ a[Len(a)] = 0 THEN Norm(SubSeq(a, 1, Len(a) - 1)) ELSE a

Limb(a, i) == IF i <= Len(a) THEN a[i] ELSE 0

BigFromInt(k) == Norm(<< k % Base, (k \div Base) % Base, k \div (Base * Base) >>)

BigAdd(a, b) ==
    LET n == IF Len(a) < Len(b) THEN Len(b) ELSE Len(a)
        c[i \in 0..n] ==
          IF i = 0 THEN 0 ELSE (Limb(a, i) + Limb(b, i) + c[i - 1]) \div Base
    IN  Norm([i \in 1..(n + 1) |->
                IF i <= n THEN (Limb(a, i) + Limb(b, i) + c[i - 1]) % Base
                ELSE c[n]])

\* a - b for a >= b
BigSub(a, b) ==
    LET n == Len(a)
        br[i \in 0..n] ==
          IF i = 0 THEN 0
          ELSE IF Limb(a, i) - Limb(b, i) - br[i - 1] < 0 THEN 1 ELSE 0
    IN  Norm([i \in 1..n |->
                (Limb(a, i) - Limb(b, i) - br[i - 1] + Base) % Base])

\* -1, 0 or 1 as a is below, equal to or above b
BigCmp(a, b) ==
    IF Len(a) # Len(b) THEN (IF Len(a) < Len(b) THEN -1 ELSE 1)
    ELSE LET differ == { i \in 1..Len(a) : a[i] # b[i] }
         IN  IF differ = {} THEN 0
             ELSE LET i == CHOOSE j \in differ : \A k \in differ : k <= j
                  IN  IF a[i] < b[i] THEN -1 ELSE 1

\* a * k for 0 <= k < Base
BigMulSmall(a, k) ==
    LET n == Len(a)
        c[i \in 0..n] ==
          IF i = 0 THEN 0 ELSE (a[i] * k + c[i - 1]) \div Base
    IN  Norm([i \in 1..(n + 1) |->
                IF i <= n THEN (a[i] * k + c[i - 1]) % Base ELSE c[n]])

\* a * 2^s
BigShl(a, s) ==
    IF a = << >> THEN a
    ELSE [i \in 1..(s \div LimbBits) |-> 0] \o BigMulSmall(a, 2 ^ (s % LimbBits))

\* a \div 2^s
BigShr(a, s) ==
    LET q == s \div LimbBits
        r == s % LimbBits
        n == Len(a) - q
    IN  IF n <= 0 THEN << >>
        ELSE Norm([i \in 1..n |->
                     (a[i + q] \div (2 ^ r))
                       + (Limb(a, i + q + 1) % (2 ^ r)) * (2 ^ (LimbBits - r))])

\* bit k of a, bit 0 being the lowest
BigBit(a, k) == (Limb(a, (k \div LimbBits) + 1) \div (2 ^ (k % LimbBits))) % 2

\* the number of bits of a
BitLen(a) ==
    IF a = << >> THEN 0
    ELSE LimbBits * (Len(a) - 1)
           + (CHOOSE k \in 1..LimbBits :
                2 ^ (k - 1) <= a[Len(a)] /\ a[Len(a)] < 2 ^ k)

\* the number of zero bits at the low end of a # 0
TrailingZeros(a) ==
    LET i == CHOOSE j \in 1..Len(a) : a[j] # 0 /\ \A k \in 1..(j - 1) : a[k] = 0
        r == CHOOSE k \in 0..(LimbBits - 1) :
                a[i] % (2 ^ k) = 0 /\ a[i] % (2 ^ (k + 1)) # 0
    IN  LimbBits * (i - 1) + r

RECURSIVE BigMul(_, _)
BigMul(a, b) ==
    IF b = << >> \/ a = << >> THEN << >>
    ELSE BigAdd(BigMulSmall(a, Head(b)), Norm(<< 0 >> \o BigMul(a, Tail(b))))

\* long division, three bits of a at a time from bit k - 1 down: [q, r] with
\* a = q * b + r and r < b, continuing from the quotient q and remainder r
\* of the bits from k up
RECURSIVE BigDivStep(_, _, _, _, _)
BigDivStep(a, b, k, q, r) ==
    IF k <= 0 \/ Len(q) < 0 \/ Len(r) < 0 THEN [q |-> q, r |-> r]
    ELSE LET chunk == 4 * BigBit(a, k - 1) + 2 * BigBit(a, k - 2) + BigBit(a, k - 3)
             r2 == BigAdd(BigMulSmall(r, 8), BigFromInt(chunk))
             d == CHOOSE c \in 0..7 :
                     /\ BigCmp(BigMulSmall(b, c), r2) <= 0
                     /\ BigCmp(BigMulSmall(b, c + 1), r2) > 0
         IN  BigDivStep(a, b, k - 3, BigAdd(BigMulSmall(q, 8), BigFromInt(d)),
                        BigSub(r2, BigMulSmall(b, d)))

\* the bits of a above the first k are below b, so their quotient is 0
BigDivMod(a, b) ==
    LET gap == BitLen(a) - BitLen(b) + 1
        k == IF gap <= 0 THEN 0 ELSE 3 * ((gap + 2) \div 3)
    IN  BigDivStep(a, b, k, << >>, BigShr(a, k))

MantissaBits == 53

\* the float of value (-1)^neg * m * 2^e for m of at most 53 bits
F64(neg, m, e) ==
    IF m = << >> THEN [neg |-> FALSE, m |-> << >>, e |-> 0]
    ELSE LET z == TrailingZeros(m)
         IN  [neg |-> neg, m |-> BigShr(m, z), e |-> e + z]

\* m * 2^e, plus a positive amount below 2^e when sticky, rounded to the
\* nearest float, ties to even
Round64(neg, m, e, sticky) ==
    LET len == BitLen(m) IN
    IF len <= MantissaBits THEN F64(neg, m, e)
    ELSE LET s == len - MantissaBits
             q == BigShr(m, s)
             half == BigBit(m, s - 1) = 1
             rest == sticky \/ BigShl(BigShr(m, s - 1), s - 1) # m
             up == half /\ (rest \/ BigBit(q, 0) = 1)
         IN  F64(neg, IF up THEN BigAdd(q, << 1 >>) ELSE q, e + s)

F64Zero == F64(FALSE, << >>, 0)

\* float(k) for an integer |k| < 2^30
F64FromInt(k) == F64(k < 0, BigFromInt(Abs(k)), 0)

F64Neg(x) == IF x.m = << >> THEN x ELSE [x EXCEPT !.neg = ~x.neg]

\* x + y before rounding, as [neg, m, e]
ExactAdd(x, y) ==
    LET e == IF x.e < y.e THEN x.e ELSE y.e
        mx == BigShl(x.m, x.e - e)
        my == BigShl(y.m, y.e - e)
    IN  IF x.neg = y.neg THEN [neg |-> x.neg, m |-> BigAdd(mx, my), e |-> e]
        ELSE IF BigCmp(mx, my) >= 0
               THEN [neg |-> x.neg, m |-> BigSub(mx, my), e |-> e]
               ELSE [neg |-> y.neg, m |-> BigSub(my, mx), e |-> e]

F64Add(x, y) ==
    LET s == ExactAdd(x, y) IN Round64(s.neg, s.m, s.e, FALSE)

F64Sub(x, y) == F64Add(x, F64Neg(y))

F64Mul(x, y) == Round64(x.neg # y.neg, BigMul(x.m, y.m), x.e + y.e, FALSE)

\* x / y for y # 0: the quotient is taken to at least 56 bits, the remainder
\* says whether anything is left below them
F64Div(x, y) ==
    IF x.m = << >> THEN F64Zero
    ELSE LET gap == MantissaBits + 3 + BitLen(y.m) - BitLen(x.m)
             s == IF gap > 0 THEN gap ELSE 0
             d == BigDivMod(BigShl(x.m, s), y.m)
         IN  Round64(x.neg # y.neg, d.q, x.e - s - y.e, d.r # << >>)

\* x < y and x <= y, exactly
F64Less(x, y) ==
    LET d == ExactAdd(x, F64Neg(y)) IN d.m # << >> /\ d.neg

F64Leq(x, y) == ~F64Less(y, x)

(***************************************************************************)
(* market_structure.py: calculate_herfindahl and calculate_gini on numpy   *)
(* arrays of float64.                                                      *)
(***************************************************************************)
RECURSIVE SeqSum64(_, _)
\* res += a[i] for the elements of a in turn
SeqSum64(res, a) ==
    IF a = << >> THEN res ELSE SeqSum64(F64Add(res, Head(a)), Tail(a))

\* np.sum of an array of up to 128 floats: below 8 elements they are added
\* in turn; from 8 on, eight partial sums take every eighth element, are
\* added in pairs, and the elements left over are added in turn
NpSum(a) ==
    LET n == Len(a) IN
    IF n < 8 THEN SeqSum64(F64Zero, a)
    ELSE LET full == n - (n % 8)
             Every8th(k) ==
               [j \in 1..((full \div 8) - 1) |-> a[8 * j + k]]
             r == [k \in 1..8 |-> SeqSum64(a[k], Every8th(k))]
             res == F64Add(F64Add(F64Add(r[1], r[2]), F64Add(r[3], r[4])),
                           F64Add(F64Add(r[5], r[6]), F64Add(r[7], r[8])))
         IN  SeqSum64(res, SubSeq(a, full + 1, n))

\* np.cumsum
RECURSIVE NpCumSum(_)
NpCumSum(a) ==
    IF a = << >> THEN << >>
    ELSE LET front == NpCumSum(SubSeq(a, 1, Len(a) - 1))
         IN  IF front = << >> THEN << a[1] >>
             ELSE Append(front, F64Add(front[Len(front)], a[Len(a)]))

\* np.sort
RECURSIVE NpSort(_)
NpSort(a) ==
    IF a = << >> THEN << >>
    ELSE LET i == CHOOSE j \in DOMAIN a : \A k \in DOMAIN a : F64Leq(a[j], a[k])
         IN  << a[i] >> \o NpSort(SubSeq(a, 1, i - 1) \o SubSeq(a, i + 1, Len(a)))

\* np.sum(np.array(market_shares) ** 2)
calculate_herfindahl(market_shares) ==
    NpSum([i \in DOMAIN market_shares |->
             F64Mul(market_shares[i], market_shares[i])])

calculate_gini(market_shares) ==
    LET shares == market_shares
        n == Len(shares)
    IN  IF n = 0 \/ NpSum(shares) = F64Zero THEN F64Zero
        ELSE LET shares_sorted == NpSort(shares)
                 cumsum == NpCumSum(shares_sorted)
                 ratio == F64Div(F64Mul(F64FromInt(2), NpSum(cumsum)), cumsum[n])
             IN  F64Div(F64Sub(F64FromInt(n + 1), ratio), F64FromInt(n))

\* the share num_customers / total_customers of market_share_evolution, 0
\* when the year has no customers
ShareOf(num_customers, total_customers) ==
    IF total_customers > 0
      THEN F64Div(F64FromInt(num_customers), F64FromInt(total_customers))
      ELSE F64Zero

\* the share lists of the model: the shares of up to MaxCustomerFirms firms
\* with 0, 1 or 2 customers each, and up to MaxFirms equal shares
MaxFirms == 7
MaxCustomerFirms == 4
CustomerCounts == {0, 1, 2}

SharesOfCustomers(c) ==
    [i \in DOMAIN c |-> ShareOf(c[i], SumSeq(c))]

GiniInputs ==
    { SharesOfCustomers(c) : c \in SeqsUpTo(CustomerCounts, MaxCustomerFirms) }
    \cup { [i \in 1..n |-> ShareOf(1, n)] : n \in 1..MaxFirms }
    \cup { [i \in 1..n |-> ShareOf(1, 4)] : n \in 1..MaxFirms }

InitGini ==
    /\ pc = "call"
    /\ gini_shares \in GiniInputs
    /\ gini_out = None
    /\ OthersIdle("gini")

CalculateGini ==
    /\ pc = "call"
    /\ gini_out' = Some(calculate_gini(gini_shares))
    /\ pc' = "returned"
    /\ UNCHANGED gini_shares
    /\ OthersUnchanged("gini")

NextGini == CalculateGini

SpecGini == InitGini /\ [][NextGini]_vars

AllZero(shares) == \A i \in DOMAIN shares : shares[i] = F64Zero

Identical(shares) == \A i, j \in DOMAIN shares : shares[i] = shares[j]

\* C17: calculate_gini returns exactly 0 for an empty share list, for shares
\* that are all 0 and for any number of identical positive shares
C17_GiniZeroOnEquality ==
    pc = "returned" =>
      ((gini_shares = << >> \/ AllZero(gini_shares) \/ Identical(gini_shares))
         => gini_out[1] = F64Zero)

\* one firm holds the entire share, the others none
Monopoly(shares) ==
    \E i \in DOMAIN shares :
       /\ shares[i] = F64FromInt(1)
       /\ \A j \in DOMAIN shares \ {i} : shares[j] = F64Zero

\* C18: calculate_gini of non-negative shares lies in [0, 1], is 0 for
\* identical shares and 1 for a monopoly
C18_GiniInUnitInterval ==
    pc = "returned" =>
      /\ F64Leq(F64Zero, gini_out[1])
      /\ F64Leq(gini_out[1], F64FromInt(1))
      /\ (gini_shares # << >> /\ Identical(gini_shares)
            => gini_out[1] = F64Zero)
      /\ (Len(gini_shares) > 1 /\ Monopoly(gini_shares)
            => gini_out[1] = F64FromInt(1))

(***************************************************************************)
(* market_structure.py: market_share_evolution and                         *)
(* calculate_hhi_timeseries.                                               *)
(***************************************************************************)
\* the rows of the frame whose year is the given one, in frame order
RowsOfYear(df, year) ==
    LET InYear(row) == row.year = year IN SelectSeq(df, InYear)

RECURSIVE Concat(_)
Concat(seqs) == IF seqs = << >> THEN << >> ELSE Head(seqs) \o Concat(Tail(seqs))

market_share_evolution(snapshots) ==
    LET yearly_totals(year) == SumSeq(Column(RowsOfYear(snapshots, year), "num_customers"))
        years == Unique(Column(snapshots, "year"))
        SharesOfYear(year) ==
          LET year_data == RowsOfYear(snapshots, year)
              total_customers == yearly_totals(year)
          IN  [k \in DOMAIN year_data |->
                 LET row == year_data[k]
                 IN  [year |-> year,
                      insurer_id |-> row.insurer_id,
                      market_share |-> ShareOf(row.num_customers, total_customers),
                      num_customers |-> row.num_customers,
                      capital |-> row.capital,
                      price |-> row.price,
                      is_solvent |-> row.is_solvent]]
    IN  Concat([y \in DOMAIN years |-> SharesOfYear(years[y])])

calculate_hhi_timeseries(shares) ==
    LET years == Unique(Column(shares, "year"))
    IN  [y \in DOMAIN years |->
           LET year_shares == Column(RowsOfYear(shares, years[y]), "market_share")
               Positive(x) == F64Less(F64Zero, x)
           IN  [year |-> years[y],
                hhi |-> calculate_herfindahl(year_shares),
                gini |-> calculate_gini(year_shares),
                num_active |-> Len(SelectSeq(year_shares, Positive))]]

\* snapshot frames of the model: MarketYears years of MarketFirms firms with
\* 0, 1 or 2 customers each, and the frame without rows
MarketYears == 2
MarketFirms == 3

MkMarketSnapshots(counts) ==
    [k \in 1..(Len(counts) * MarketFirms) |->
        LET y == (k - 1) \div MarketFirms
            f == ((k - 1) % MarketFirms) + 1
        IN  [year |-> y, insurer_id |-> f, num_customers |-> counts[y + 1][f],
             capital |-> 1000, price |-> 1010,
             is_solvent |-> counts[y + 1][f] > 0]]

MarketSnapshotFrames ==
    { MkMarketSnapshots(counts) :
        counts \in [1..MarketYears -> [1..MarketFirms -> CustomerCounts]] }
    \cup { << >> }

InitMarket ==
    /\ pc = "call"
    /\ market_snapshots \in MarketSnapshotFrames
    /\ share_evolution = None
    /\ hhi_data = None
    /\ OthersIdle("market")

MarketShareEvolution ==
    /\ pc = "call"
    /\ share_evolution' = Some(market_share_evolution(market_snapshots))
    /\ pc' = "shares"
    /\ UNCHANGED << market_snapshots, hhi_data >>
    /\ OthersUnchanged("market")

\* pd.DataFrame([]) has no columns: share_evolution['year'] raises KeyError
CalculateHhiTimeseries ==
    /\ pc = "shares"
    /\ IF share_evolution[1] = << >>
         THEN /\ pc' = "raised"
              /\ UNCHANGED hhi_data
         ELSE /\ hhi_data' = Some(calculate_hhi_timeseries(share_evolution[1]))
              /\ pc' = "done"
    /\ UNCHANGED << market_snapshots, share_evolution >>
    /\ OthersUnchanged("market")

NextMarket == MarketShareEvolution \/ CalculateHhiTimeseries

SpecMarket == InitMarket /\ [][NextMarket]_vars

\* x * den compared with num, exactly: -1, 0 or 1 as x is below, at or
\* above num / den
CmpRatio(x, num, den) ==
    LET scaled == [neg |-> x.neg, m |-> BigMulSmall(x.m, den), e |-> x.e]
        rhs == F64FromInt(num)
    IN  IF F64Less(scaled, rhs) THEN -1
        ELSE IF F64Less(rhs, scaled) THEN 1 ELSE 0

\* C15: in every year of calculate_hhi_timeseries, a year without
\* customers included, 1/N <= hhi <= 1 for the N entities of the year
C15_HhiWithinRange ==
    pc = "done" =>
      \A y \in DOMAIN hhi_data[1] :
         LET n == Len(RowsOfYear(share_evolution[1], hhi_data[1][y].year))
         IN  /\ F64Leq(F64Div(F64FromInt(1), F64FromInt(n)), hhi_data[1][y].hhi)
             /\ F64Leq(hhi_data[1][y].hhi, F64FromInt(1))

RECURSIVE ExactSum(_)
\* the sum of the floats of a sequence, without rounding
ExactSum(a) ==
    IF a = << >> THEN F64Zero ELSE ExactAdd(Head(a), ExactSum(Tail(a)))

\* C16: the shares market_share_evolution gives a year sum to 1.0 within
\* 3%, and each is the entity's num_customers over the year's total
C16_SharesSumToOne ==
    pc \in {"shares", "done"} =>
      \A k \in DOMAIN share_evolution[1] :
         LET rows == RowsOfYear(share_evolution[1], share_evolution[1][k].year)
             total == ExactSum(Column(rows, "market_share"))
             customers == SumSeq(Column(rows, "num_customers"))
         IN  /\ CmpRatio(total, 97, 100) >= 0
             /\ CmpRatio(total, 103, 100) <= 0
             /\ customers > 0
             /\ share_evolution[1][k].market_share =
                  F64Div(F64FromInt(share_evolution[1][k].num_customers),
                         F64FromInt(customers))

(***************************************************************************)
(* Claims about check_capacity_violations and check_insolvency_rates.      *)
(***************************************************************************)
\* the rows the capacity check is to report: solvent, and exposure above
\* capacity * 1.01
RowOverCapacity(row, leverage_ratio) ==
    /\ row.is_solvent
    /\ 100 * (row.num_customers * row.price) * 10 > 101 * (row.capital * leverage_ratio)

\* C19: the capacity check reports exactly the solvent rows whose exposure
\* num_customers * price exceeds capital * leverage_ratio * 1.01, each with
\* year, id, capacity, exposure and percent overage, and has_violations says
\* whether the list is non-empty
C19_ViolationIffOverCapacity ==
    IsChecked =>
      /\ "capacity" \in DOMAIN run_out
      /\ \E leverage_ratio \in Leverages :
           LET Over(row) == RowOverCapacity(row, leverage_ratio)
               due == SelectSeq(insurer_snapshots, Over)
               violations == run_out.capacity.violations
           IN  /\ Len(violations) = Len(due)
               /\ \A k \in DOMAIN due :
                    /\ DOMAIN violations[k] =
                         {"year", "insurer_id", "capacity", "exposure", "violation_pct"}
                    /\ violations[k].year = due[k].year
                    /\ violations[k].insurer_id = due[k].insurer_id
                    /\ violations[k].exposure = due[k].num_customers * due[k].price
                    /\ violations[k].capacity.num * 10 =
                         due[k].capital * leverage_ratio * violations[k].capacity.den
                    /\ violations[k].violation_pct = ViolationPct(due[k], leverage_ratio)
               /\ run_out.capacity.has_violations = (violations # << >>)

(***************************************************************************)
(* anomaly_detection.check_insolvency_rates on its own: snapshot frames of *)
(* up to MaxInsurerYears insurer-year rows.                                *)
(***************************************************************************)
MaxInsurerYears == 5

MkInsurerYears(fs) ==
    [k \in DOMAIN fs |->
        [year |-> k - 1, insurer_id |-> fs[k].insurer_id, capital |-> 1000,
         is_solvent |-> fs[k].is_solvent, loss_ratio |-> 200,
         num_customers |-> 2, price |-> 1010, market_share |-> 50]]

InsurerYearFrames ==
    { MkInsurerYears(fs) :
        fs \in SeqsUpTo([insurer_id : InsurerIds, is_solvent : BOOLEAN],
                        MaxInsurerYears) }

InitInsolvency ==
    /\ pc = "loaded"
    /\ market_ts = << >>
    /\ insurer_snapshots \in InsurerYearFrames
    /\ run_out = None
    /\ BatchIdle /\ Exp1Idle /\ CycleIdle /\ StatIdle

CheckInsolvencyRates ==
    /\ pc = "loaded"
    /\ run_out' = check_insolvency_rates(insurer_snapshots)
    /\ pc' = "rated"
    /\ UNCHANGED << market_ts, insurer_snapshots >>
    /\ UNCHANGED << BatchVars, Exp1Vars, CycleVars, StatVars >>

NextInsolvency == CheckInsolvencyRates

SpecInsolvency == InitInsolvency /\ [][NextInsolvency]_vars

InsolventRows(s) == { k \in DOMAIN s : ~s[k].is_solvent }

OffendingRows(m) == { k \in DOMAIN m : m[k].loss_ratio > 200 }

\* the j-th smallest member of a set of positions
NthOf(S, j) == CHOOSE k \in S : Cardinality({ i \in S : i < k }) = j - 1

\* C21: the explosion check reports exactly the rows of the market series
\* with loss_ratio > 2.0, one (year, value) entry per row in series order,
\* and has_explosions holds exactly when an entry is reported
C21_ExplosionsExactlyAboveThreshold ==
    pc = "analysed" =>
      LET rows == OffendingRows(market_ts)
          reported == run_out.explosions.explosions
      IN  /\ Len(reported) = Cardinality(rows)
          /\ \A j \in DOMAIN reported :
               /\ reported[j].year = market_ts[NthOf(rows, j)].year
               /\ reported[j].loss_ratio = market_ts[NthOf(rows, j)].loss_ratio
          /\ run_out.explosions.has_explosions = (rows # {})

\* a series with a year at exactly 2.0, left out, before a year above it
C21_Witness ==
    /\ pc = "analysed"
    /\ Len(market_ts) = 2
    /\ market_ts[1].loss_ratio = 200
    /\ market_ts[2].loss_ratio = 250
    /\ run_out.explosions.has_explosions
    /\ Len(run_out.explosions.explosions) = 1
    /\ run_out.explosions.explosions[1].year = 1

\* C22: the market-share-sum check only informs: the shadow-state check
\* reports |sum of the final-year shares - 1.0|, no issue comes from it, and
\* is_consistent is decided by the negative-capital and extreme-loss-ratio
\* checks alone
C22_ShareSumInformational ==
    (IsChecked /\ "checks" \in DOMAIN run_out.shadow.result) =>
      LET final == FinalInsurers(market_ts, insurer_snapshots)
          total == SumSeq(Column(final, "market_share"))
          result == run_out.shadow.result
      IN  /\ result.checks.total_market_share = total
          /\ result.checks.market_share_error = Abs(total - 100)
          /\ \A i \in DOMAIN result.issues :
               result.issues[i].type \in {"negative_capital", "extreme_loss_ratios"}
          /\ run_out.shadow.is_consistent =
               (\A r \in Range(final) : r.capital >= 0 /\ r.loss_ratio <= 200)

\* final-year shares that sum to 0 and to 0.5 beside a clean result
C22_Witness ==
    /\ IsChecked
    /\ "checks" \in DOMAIN run_out.shadow.result
    /\ run_out.shadow.result.checks.market_share_error \in {50, 100}
    /\ run_out.shadow.result.checks.market_share_error
         # run_out.shadow.result.checks.total_market_share
    /\ run_out.shadow.result.issues = << >>
    /\ run_out.shadow.is_consistent

(***************************************************************************)
(* parameter_sensitivity.py: compute_correlations and the lines            *)
(* analyze_parameter_sensitivity prints about its result (lines 300-323).  *)
(* A metric value is nan, inf or a number; stats.pearsonr is scipy's: for  *)
(* finite, non-constant inputs its r and p (in hundredths) are the         *)
(* library's, for a constant or non-finite input both are nan.             *)
(***************************************************************************)
Inf == [nan |-> FALSE, v |-> 0, inf |-> TRUE]

IsNan(x) == x.nan

IsFinite(x) == ~x.nan /\ "inf" \notin DOMAIN x

\* the metrics dict of compute_correlations, in insertion order
Metrics ==
    << [name |-> "Cycle Detection Rate", column |-> "cycle_detection_rate"],
       [name |-> "Cycle Period", column |-> "cycle_period_mean"],
       [name |-> "Loss Ratio Volatility", column |-> "std_loss_ratio_mean"],
       [name |-> "AR(2) Conditions Met", column |-> "cycle_conditions_met_rate"] >>

MinValid == 3

\* np.sum(valid) < 3
TooFewValid(valid) == Len(valid) < MinValid

\* the positions kept by valid = ~np.isnan(metric_values)
ValidRows(df, column) ==
    LET NotNan(row) == ~IsNan(row[column]) IN SelectSeq(df, NotNan)

Constant(xs) == \A i, j \in DOMAIN xs : xs[i] = xs[j]

\* what stats.pearsonr returns for its arguments, lib being the library's
\* (r, p) for inputs it can correlate
PearsonR(x, y, lib) ==
    IF (\E i \in DOMAIN x : ~IsFinite(x[i])) \/ (\E i \in DOMAIN y : ~IsFinite(y[i]))
         \/ Constant(x) \/ Constant(y)
      THEN [corr |-> NaN, p_value |-> NaN]
      ELSE [corr |-> Num(lib.r), p_value |-> Num(lib.p)]

\* the entries of correlations and the calls of pearsonr, metric by metric
RECURSIVE CorrelationsFrom(_, _, _)
CorrelationsFrom(k, df, lib) ==
    IF k = 0 THEN [entries |-> << >>, calls |-> << >>]
    ELSE LET before == CorrelationsFrom(k - 1, df, lib)
             valid == ValidRows(df, Metrics[k].column)
             x == Column(valid, "param_value")
             y == Column(valid, Metrics[k].column)
             res == PearsonR(x, y, lib[k])
         IN  IF TooFewValid(valid) THEN before
             ELSE [entries |->
                     Append(before.entries,
                            [metric |-> Metrics[k].name,
                             correlation |-> res.corr,
                             p_value |-> res.p_value,
                             significant |-> FloatLess(res.p_value, Num(Alpha))]),
                   calls |-> Append(before.calls, [metric |-> Metrics[k].name,
                                                   x |-> x, y |-> y])]

compute_correlations(df, lib) == CorrelationsFrom(Len(Metrics), df, lib)

\* correlations.get(name, {}).get('correlation', 0)
GetCorrelation(corrs, name) ==
    IF \E i \in DOMAIN corrs : corrs[i].metric = name
      THEN (CHOOSE e \in Range(corrs) : e.metric = name).correlation
      ELSE Num(0)

IsBeta(name) == name \in {"underwriter_smoothing", "beta"}

\* the lines printed after compute_correlations: one per entry, then for a
\* beta sweep the two expected relationships
PrintedLines(corrs, name) ==
    [i \in DOMAIN corrs |->
       [kind |-> "correlation", metric |-> corrs[i].metric,
        significant |-> corrs[i].significant]]
    \o
    (IF IsBeta(name)
       THEN << [kind |-> IF FloatLess(GetCorrelation(corrs, "Cycle Period"), Num(0))
                           THEN "expected" ELSE "unexpected",
                metric |-> "Cycle Period", significant |-> FALSE],
               [kind |-> IF FloatLess(Num(0), GetCorrelation(corrs, "Loss Ratio Volatility"))
                           THEN "expected" ELSE "unexpected",
                metric |-> "Loss Ratio Volatility", significant |-> FALSE] >>
       ELSE << >>)

\* sweep frames of the model: up to MaxParamValues parameter values 1, 2, ...
\* with a cycle period that may be nan (no cycle detected in any run), a
\* volatility that may be inf, and two rates
MaxParamValues == 4
PeriodValues == {NaN, Num(5), Num(6)}
VolatilityValues == {Inf, Num(1), Num(2)}
ParamNames == {"underwriter_smoothing", "risk_loading"}
CorrValues == {-90, 90}

MkSweep(periods, vols, rising) ==
    [k \in DOMAIN periods |->
       [param_value |-> Num(k),
        cycle_detection_rate |-> IF rising THEN Num(k) ELSE Num(1),
        cycle_period_mean |-> periods[k],
        std_loss_ratio_mean |-> vols[k],
        cycle_conditions_met_rate |-> Num(1)]]

SweepFrames ==
    UNION { { MkSweep(periods, vols, rising) :
                periods \in [1..n -> PeriodValues],
                vols \in { [k \in 1..n |-> Num(k)],
                           [k \in 1..n |-> IF k = 1 THEN Inf ELSE Num(k)] },
                rising \in BOOLEAN } :
            n \in 1..MaxParamValues }

InitCorrelations ==
    /\ pc = "loaded"
    /\ sweep_df \in SweepFrames
    /\ param_name \in ParamNames
    /\ pearsonr_calls = << >>
    /\ correlations = None
    /\ printed = << >>
    /\ OthersIdle("corr")

ComputeCorrelations ==
    /\ pc = "loaded"
    /\ \E r \in CorrValues, p \in PValues :
         LET lib == [k \in DOMAIN Metrics |-> [r |-> r, p |-> p]]
             res == compute_correlations(sweep_df, lib)
         IN  /\ correlations' = Some(res.entries)
             /\ pearsonr_calls' = res.calls
    /\ pc' = "correlated"
    /\ UNCHANGED << sweep_df, param_name, printed >>
    /\ OthersUnchanged("corr")

PrintCorrelations ==
    /\ pc = "correlated"
    /\ printed' = PrintedLines(correlations[1], param_name)
    /\ pc' = "printed"
    /\ UNCHANGED << sweep_df, param_name, pearsonr_calls, correlations >>
    /\ OthersUnchanged("corr")

NextCorrelations == ComputeCorrelations \/ PrintCorrelations

SpecCorrelations == InitCorrelations /\ [][NextCorrelations]_vars

\* the rows of the frame with a finite value of the metric
FiniteRows(df, column) ==
    LET Fin(row) == IsFinite(row[column]) /\ IsFinite(row.param_value)
    IN  SelectSeq(df, Fin)

\* C23: each metric is correlated on its finite, non-missing values paired
\* with their parameter values; a metric with fewer than 3 of them has no
\* entry and is reported as insufficient; a metric with 3 or more has an
\* entry with correlation, p-value and significant = (p < 0.05)
C23_CorrelationsOnValidValues ==
    pc = "printed" =>
      \A k \in DOMAIN Metrics :
         LET finite == FiniteRows(sweep_df, Metrics[k].column)
             Named(e) == e.metric = Metrics[k].name
             entry == SelectSeq(correlations[1], Named)
             call == SelectSeq(pearsonr_calls, Named)
         IN  IF Len(finite) < 3
               THEN /\ entry = << >>
                    /\ \E i \in DOMAIN printed :
                          /\ printed[i].metric = Metrics[k].name
                          /\ printed[i].kind = "insufficient"
               ELSE /\ Len(entry) = 1
                    /\ Len(call) = 1
                    /\ call[1].x = Column(finite, "param_value")
                    /\ call[1].y = Column(finite, Metrics[k].column)
                    /\ entry[1].significant = FloatLess(entry[1].p_value, Num(5))

(***************************************************************************)
(* analyze_exp3.py (lines 48-63) and analyze_exp4.py (lines 44-58): the    *)
(* two-sample comparison of the final insolvency counts of two groups of   *)
(* ten replications.  stats.ttest_ind is scipy's pooled-variance t-test:   *)
(* t = (mean_a - mean_b) / sqrt(sp2 * (1/na + 1/nb)); with sp2 = 0 and     *)
(* equal means t = 0/0 and t and p are nan, with sp2 = 0 and different     *)
(* means t is infinite and p is 0, with equal means and sp2 > 0 t = 0 and  *)
(* p = 1, and otherwise p is the library's.  p is kept in hundredths.      *)
(***************************************************************************)
GroupSize == 10

\* n * (sum of squares) - (sum)^2, n^2 times the variance of the group
ScaledVariance(xs) ==
    Len(xs) * SumSeq([i \in DOMAIN xs |-> xs[i] * xs[i]]) - SumSeq(xs) * SumSeq(xs)

TTestInd(a, b, lib_p) ==
    LET constant == ScaledVariance(a) = 0 /\ ScaledVariance(b) = 0
        same_mean == SumSeq(a) * Len(b) = SumSeq(b) * Len(a)
    IN  IF constant THEN (IF same_mean THEN NaN ELSE Num(0))
        ELSE IF same_mean THEN Num(100)
        ELSE Num(lib_p)

\* (np.mean(a) - np.mean(b)) / np.mean(a) * 100 on numpy floats: 0/0 is nan
\* and x/0 is infinite
Improvement(a, b) ==
    LET mean_a == Frac(SumSeq(a), Len(a))
        mean_b == Frac(SumSeq(b), Len(b))
        diff == Frac(mean_a.num * mean_b.den - mean_b.num * mean_a.den,
                     mean_a.den * mean_b.den)
    IN  IF mean_a.num = 0
          THEN (IF diff.num = 0 THEN NaN ELSE Inf)
          ELSE [nan |-> FALSE,
                q |-> Frac(diff.num * mean_a.den * 100, diff.den * mean_a.num)]

TwoSampleComparison(a, b, lib_p) ==
    [p_value |-> TTestInd(a, b, lib_p), improvement |-> Improvement(a, b)]

\* the groups of the model: ten counts, the first k of them lo and the rest hi
InsolventCounts == {0, 1, 5}

Groups ==
    { [i \in 1..GroupSize |-> IF i <= k THEN lo ELSE hi] :
        k \in {0, 3, 5}, lo \in InsolventCounts, hi \in InsolventCounts }

InitCompare ==
    /\ pc = "loaded"
    /\ group_a \in Groups
    /\ group_b \in Groups
    /\ comparison = None
    /\ OthersIdle("compare")

\* analyze_exp3.py: scenario 2 against scenario 3
AnalyzeExp3 ==
    /\ pc = "loaded"
    /\ \E lib_p \in PValues :
         comparison' = Some(TwoSampleComparison(group_a, group_b, lib_p))
    /\ pc' = "exp3"
    /\ UNCHANGED << group_a, group_b >>
    /\ OthersUnchanged("compare")

\* analyze_exp4.py: independent against syndicated
AnalyzeExp4 ==
    /\ pc = "loaded"
    /\ \E lib_p \in PValues :
         comparison' = Some(TwoSampleComparison(group_a, group_b, lib_p))
    /\ pc' = "exp4"
    /\ UNCHANGED << group_a, group_b >>
    /\ OthersUnchanged("compare")

NextCompare == AnalyzeExp3 \/ AnalyzeExp4

SpecCompare == InitCompare /\ [][NextCompare]_vars

\* C24: the comparison of two identical groups gives p_value 1.0 and an
\* improvement of 0%
C24_IdenticalGroupsNoDifference ==
    (pc \in {"exp3", "exp4"} /\ group_a = group_b) =>
      /\ comparison[1].p_value = Num(100)
      /\ comparison[1].improvement = [nan |-> FALSE, q |-> Frac(0, 1)]

FirstMaximum(power, i) ==
    /\ \A j \in DOMAIN power : ~WideLess(power[i], power[j])
    /\ \A j \in DOMAIN power : j < i => WideLess(power[j], power[i])

\* period is the reciprocal of the positive frequency freq
Reciprocal(period, freq) ==
    /\ freq.num > 0
    /\ period.den > 0
    /\ period.num * freq.num = period.den * freq.den

\* the frequency is the first grid point of maximal power of the spectrum
DominantOf(spectrum, freq) ==
    \E i \in DOMAIN spectrum.power :
        /\ FirstMaximum(spectrum.power, i)
        /\ freq = spectrum.freqs[i]
        /\ freq = Frac(FreqGrid[i], 100)

\* C26: the dominant frequency is the grid point at which the power is
\* greatest, the first such point when the greatest power is attained more
\* than once, and the period reported with it is its reciprocal; the
\* cycle diagnostics, the single-run periodogram and the multi-run plots
\* all report the same frequency and period for the same series
C26_DominantFrequencyFirstMaximum ==
    /\ diag_out # None =>
         /\ DominantOf(diag_out[1], diag_out[1].dominant_freq[1])
         /\ Reciprocal(diag_out[1].dominant_period,
                       diag_out[1].dominant_freq[1])
    /\ plot_out # None =>
         /\ DominantOf(plot_out[1], plot_out[1].dominant_freq[1])
         /\ Reciprocal(plot_out[1].dominant_period,
                       plot_out[1].dominant_freq[1])
    /\ multi_out # None =>
         /\ DominantOf(compute_periodogram(spectral_series),
                       multi_out[1].dominant_freq)
         /\ Len(multi_out[1].periods) = 1
         /\ Reciprocal(multi_out[1].periods[1], multi_out[1].dominant_freq)
    /\ (diag_out # None /\ plot_out # None) =>
         /\ diag_out[1].dominant_freq = plot_out[1].dominant_freq
         /\ diag_out[1].dominant_period = plot_out[1].dominant_period
    /\ (plot_out # None /\ multi_out # None) =>
         /\ plot_out[1].dominant_freq = Some(multi_out[1].dominant_freq)
         /\ << plot_out[1].dominant_period >> = multi_out[1].periods

\* a series without variation, whose power is the same at every grid point:
\* all three consumers report the first grid point, 0.05, and the period 20
C26_Witness ==
    /\ diag_out # None /\ plot_out # None /\ multi_out # None
    /\ \A i, j \in DOMAIN diag_out[1].power :
           diag_out[1].power[i] = diag_out[1].power[j]
    /\ diag_out[1].dominant_freq = Some(Frac(5, 100))
    /\ plot_out[1].dominant_freq = Some(Frac(5, 100))
    /\ multi_out[1].dominant_freq = Frac(5, 100)
    /\ diag_out[1].dominant_period = Frac(20, 1)
    /\ plot_out[1].dominant_period = Frac(20, 1)
    /\ multi_out[1].periods = << Frac(20, 1) >>

\* the runs of a result list, in the list's order
RunsOf(list) == [k \in DOMAIN list |-> list[k].run]

\* the positions in the run list of the runs whose checks have all been made
AnalysedPositions == { k \in DOMAIN processed : ChecksDone(k) }

\* the analysed runs, in the order in which they were processed
AnalysedRuns ==
    LET at == SetToSortedSeq(AnalysedPositions)
    IN  [i \in DOMAIN at |-> processed[at[i]].run]

PositionOf(run) == CHOOSE k \in DOMAIN processed : processed[k].run = run

\* the runs are runs whose three files were there, each once, in run order
InRunOrder(runs) ==
    /\ \A i \in DOMAIN runs :
          \E k \in DOMAIN processed :
             processed[k].run = runs[i] /\ HasChecks(processed[k].files)
    /\ \A i, j \in DOMAIN runs : i < j => PositionOf(runs[i]) < PositionOf(runs[j])

ShadowFlagged(e) ==
    \/ "error" \in DOMAIN e.result
    \/ e.result.issues # << >>

\* C27: between two iterations of the loop over the sorted runs, and in the
\* report, the insolvency statistics and the stationarity results hold one
\* entry for each analysed run, in run order; the lists of shadow issues,
\* capacity violations and loss explosions hold flagged runs only, each at
\* most once and in run order, the run analysed last being in a list exactly
\* when its check flagged it; and the total is at most 4 per analysed run
C27_ListsFollowProcessedRuns ==
    pc \in {"loop", "done"} =>
      /\ RunsOf(all_insolvency_stats) = AnalysedRuns
      /\ RunsOf(all_stationarity_results) = AnalysedRuns
      /\ InRunOrder(RunsOf(all_shadow_issues))
      /\ InRunOrder(RunsOf(all_capacity_violations))
      /\ InRunOrder(RunsOf(all_loss_explosions))
      /\ \A e \in Range(all_shadow_issues) : ShadowFlagged(e)
      /\ \A e \in Range(all_capacity_violations) : e.violations # << >>
      /\ \A e \in Range(all_loss_explosions) : e.explosions # << >>
      /\ (processed # << >> /\ run_out # None) =>
           LET run == processed[Len(processed)].run IN
           /\ (run \in Range(RunsOf(all_shadow_issues)))
                <=> ~run_out.shadow.is_consistent
           /\ (run \in Range(RunsOf(all_capacity_violations)))
                <=> run_out.capacity.has_violations
           /\ (run \in Range(RunsOf(all_loss_explosions)))
                <=> run_out.explosions.has_explosions
      /\ total_issues # None => total_issues[1] <= 4 * Len(AnalysedRuns)

\* two runs have been analysed and reported: one is in no list of flagged
\* runs, the other in those of the capacity violations and loss explosions
C27_Witness ==
    /\ pc = "done"
    /\ total_issues # None /\ total_issues[1] >= 1
    /\ Len(AnalysedRuns) = 2
    /\ \E run \in Range(AnalysedRuns) :
          run \notin Range(RunsOf(all_shadow_issues))
                       \cup Range(RunsOf(all_capacity_violations))
                       \cup Range(RunsOf(all_loss_explosions))
    /\ \E run \in Range(AnalysedRuns) :
          run \in Range(RunsOf(all_capacity_violations))
                    \cap Range(RunsOf(all_loss_explosions))

\* the analysed runs whose loss ratio series has fewer than 10 observations
UndeterminedRuns ==
    { processed[k].run : k \in { j \in AnalysedPositions :
          Len(Column(processed[j].files.market, "loss_ratio")) < 10 } }

\* C30: in the stationarity summary of the report a run whose test was
\* undetermined, for having fewer than 10 observations, has its entry in the
\* results and counts in the denominator but not as stationary: the
\* stationary runs are at most as many as the runs with a determined test,
\* and the denominator of the percentage is the number of analysed runs
C30_UndeterminedRunsInDenominatorOnly ==
    pc = "done" =>
      /\ \A run \in UndeterminedRuns :
            /\ Len(StationarityOf(run)) = 1
            /\ StationarityOf(run)[1].is_stationary = None
      /\ (stationarity_summary = None) <=> (AnalysedRuns = << >>)
      /\ stationarity_summary # None =>
           LET s == stationarity_summary[1] IN
           /\ s.denominator = Len(AnalysedRuns)
           /\ s.stationary_count
                <= Len(AnalysedRuns) - Cardinality(UndeterminedRuns)
           /\ s.stationary_count =
                Cardinality({ k \in DOMAIN all_stationarity_results :
                                all_stationarity_results[k].is_stationary
                                  = Some(TRUE) })
           /\ s.pct_stationary.num = 100 * s.stationary_count
           /\ s.pct_stationary.den = Len(AnalysedRuns)

\* the report covers an undetermined run and a stationary one: 1 of 2
C30_Witness ==
    /\ pc = "done"
    /\ Cardinality(UndeterminedRuns) = 1
    /\ stationarity_summary # None
    /\ stationarity_summary[1].denominator = 2
    /\ stationarity_summary[1].stationary_count = 1

\* snapshot rows of a year other than fy: a healthy insurer and one with
\* negative capital and an extreme loss ratio, the year before and after
OtherYearRows(fy) ==
    { [year |-> y, insurer_id |-> 9, capital |-> f[1], is_solvent |-> TRUE,
       loss_ratio |-> f[2], num_customers |-> 2, price |-> 1010,
       market_share |-> 50] :
        y \in {fy - 1, fy + 1}, f \in { << 1000, 200 >>, << -500, 250 >> } }

\* the snapshot files that differ from s in one row of a year other than fy,
\* removed, changed or added, and the file of the rows of year fy alone
OtherYearEdits(s, fy) ==
    LET other == { k \in DOMAIN s : s[k].year # fy }
        Keep(r) == r.year = fy
    IN  { SubSeq(s, 1, k - 1) \o SubSeq(s, k + 1, Len(s)) : k \in other }
        \cup { [s EXCEPT ![k] = row] : k \in other, row \in OtherYearRows(fy) }
        \cup { SubSeq(s, 1, k) \o << row >> \o SubSeq(s, k + 1, Len(s)) :
                 k \in 0..Len(s), row \in OtherYearRows(fy) }
        \cup { SelectSeq(s, Keep) }

\* the snapshot files of the shadow state check alone: up to three rows, of
\* any year, with and without negative capital and an extreme loss ratio
ShadowFields ==
    [year : SnapshotYears, capital : {-500, 1000}, is_solvent : {TRUE},
     loss_ratio : LossRatios, num_customers : {2}, price : Prices,
     market_share : {50}]

ShadowFiles ==
    { MkSnapshots(fs) : fs \in SeqsUpTo(ShadowFields, Cardinality(InsurerIds) + 1) }

InitShadow ==
    /\ pc = "loaded"
    /\ market_ts \in MarketSeries(MaxYears)
    /\ insurer_snapshots \in ShadowFiles
    /\ run_out = None
    /\ BatchIdle /\ Exp1Idle /\ CycleIdle /\ StatIdle

\* anomaly_detection.check_shadow_state_consistency on the loaded files
CheckShadowStateConsistency ==
    /\ pc = "loaded"
    /\ run_out' = [shadow |-> check_shadow_state_consistency(market_ts,
                                                              insurer_snapshots)]
    /\ pc' = "shadowed"
    /\ UNCHANGED << market_ts, insurer_snapshots >>
    /\ UNCHANGED << BatchVars, Exp1Vars, CycleVars, StatVars >>

NextShadow == CheckShadowStateConsistency

SpecShadow == InitShadow /\ [][NextShadow]_vars

\* C28: the issues and the verdict of the shadow state check are those of the
\* snapshot rows of the market series' greatest year: removing, changing or
\* adding a row of another year leaves the result as it is
C28_OnlyFinalYearRowsMatter ==
    (pc = "shadowed" /\ market_ts # << >>) =>
      \A edited \in OtherYearEdits(insurer_snapshots, FinalYear(market_ts)) :
         LET other == check_shadow_state_consistency(market_ts, edited)
         IN  /\ other.is_consistent = run_out.shadow.is_consistent
             /\ other.result = run_out.shadow.result

\* a file with a final-year row and a row of another year that has negative
\* capital and an extreme loss ratio is found consistent
C28_Witness ==
    /\ pc = "shadowed"
    /\ market_ts # << >>
    /\ \E k \in DOMAIN insurer_snapshots :
          /\ insurer_snapshots[k].year # FinalYear(market_ts)
          /\ insurer_snapshots[k].capital < 0
          /\ insurer_snapshots[k].loss_ratio > ExtremeLossRatio
    /\ \E k \in DOMAIN insurer_snapshots :
          insurer_snapshots[k].year = FinalYear(market_ts)
    /\ run_out.shadow.is_consistent
    /\ run_out.shadow.result.issues = << >>

\* C29: when check_cycle_conditions reports the conditions met, a1 lies
\* strictly between 0 and 2; and when the third condition, a1^2 + 4 a2 < 0,
\* holds, a2 is negative, so that with it the damping condition is met as
\* soon as its lower bound -1 < a2 is
C29_MetBoundsFirstCoefficient ==
    pc = "returned" =>
      LET out == conditions_out[1] IN
      /\ out.met =>
           /\ ~ar2_a1.nan
           /\ 0 < ar2_a1.v /\ ar2_a1.v < 200
      /\ out.conditions[3] =>
           /\ ~ar2_a2.nan
           /\ ar2_a2.v < 0
           /\ (-100 < ar2_a2.v => out.conditions[2])

\* a1 = 1.5 and a2 = -0.99 meet the three conditions
C29_Witness ==
    /\ pc = "returned"
    /\ ar2_a1 = Num(150)
    /\ ar2_a2 = Num(-99)
    /\ conditions_out[1].met
    /\ conditions_out[1].conditions[3]

====
